---- MODULE Spec2Model ----
(***************************************************************************)
(* A model of the resident-facing routes of the MunLink API:               *)
(*   routes/documents.py  (document types and requests)                    *)
(*   routes/benefits.py   (benefit programs and applications)              *)
(*   app.py               (the /uploads static handler)                    *)
(* Each route handler is one action.  A request is a record of the inputs  *)
(* the handler reads; the response is the record the handler returns.      *)
(***************************************************************************)
EXTENDS Integers, Sequences, FiniteSets, TLC

VARIABLES
    requests,        \* DocumentRequest rows (a set of records keyed by id)
    nextRequestId,   \* next primary key of document_requests
    applications,    \* BenefitApplication rows
    nextApplicationId,
    programs,        \* BenefitProgram rows: id -> record
    now,             \* the clock, in days
    pending,         \* TRUE when the session still holds uncommitted work
    req,             \* the request being answered
    resp,            \* the response to it
    accounts,        \* User rows of the account routes
    tokens,          \* PasswordResetToken rows
    transfers,       \* TransferRequest rows
    audit_logs,      \* AuditLog rows
    items,           \* marketplace Item rows
    transactions,    \* marketplace Transaction rows
    municipalities,  \* Municipality rows written by the location seed
    barangays,       \* Barangay rows written by the location seed
    render_db,       \* the tables seed_render_data.py writes through its connection
    inflight,        \* per worker, the call it is in the middle of
    returned,        \* the file paths the API has answered with: <<table, id, path>>
    alembic_version  \* the revisions the alembic_version table of the database holds

vars == <<requests, nextRequestId, applications, nextApplicationId,
          programs, now, pending, req, resp, accounts, tokens, transfers,
          audit_logs, items, transactions, municipalities, barangays, render_db,
          inflight, returned, alembic_version>>

\* the tables the document, benefit and upload routes never touch
AccountsUnchanged == UNCHANGED <<accounts, tokens, transfers, audit_logs>>
MarketUnchanged == UNCHANGED <<items, transactions>>
SeedsUnchanged == UNCHANGED <<municipalities, barangays, render_db>>
\* no route reads or writes the version table of the migrations
CallsUnchanged == UNCHANGED <<inflight, returned, alembic_version>>
OtherTablesUnchanged ==
    AccountsUnchanged /\ MarketUnchanged /\ SeedsUnchanged /\ CallsUnchanged

\* the workers that answer calls side by side
Workers == {1, 2}

Idle == [phase |-> "idle"]

NoCalls ==
    /\ inflight = [w \in Workers |-> Idle]
    /\ returned = {}
    /\ alembic_version = {}

NoSeededTables == [document_types |-> {}, benefit_programs |-> {}, issue_categories |-> {}]

OtherTablesEmpty ==
    /\ accounts = {}
    /\ tokens = {}
    /\ transfers = {}
    /\ audit_logs = {}
    /\ items = {}
    /\ transactions = {}
    /\ municipalities = {}
    /\ barangays = {}
    /\ render_db = NoSeededTables
    /\ NoCalls

(***************************************************************************)
(* Bounds of the model.                                                    *)
(***************************************************************************)
MaxRequests == 2
MaxApplications == 1
MaxNow == 2
MaxUploads == 1
MaxPathLen == 3

(***************************************************************************)
(* Python values.  A nullable integer column holds NoneId when it is NULL  *)
(* (primary keys start at 1, and Python treats 0 and None alike in the     *)
(* truth tests the routes use).                                            *)
(***************************************************************************)
NoneId == 0
None == "None"
NoPath == <<>>

IsSet(x) == x # NoneId

Min(a, b) == IF a < b THEN a ELSE b

\* A JSON or form value: its type tag and its text as a sequence of characters.
JInt(chars)   == [t |-> "int",   s |-> chars]
JFloat(chars) == [t |-> "float", s |-> chars]
JStr(chars)   == [t |-> "str",   s |-> chars]
JNone         == [t |-> "none",  s |-> <<>>]

Digits == {"0", "1", "2", "3", "4", "5", "6", "7", "8", "9"}

DigitVal(c) ==
    CASE c = "0" -> 0 [] c = "1" -> 1 [] c = "2" -> 2 [] c = "3" -> 3
      [] c = "4" -> 4 [] c = "5" -> 5 [] c = "6" -> 6 [] c = "7" -> 7
      [] c = "8" -> 8 [] c = "9" -> 9

RECURSIVE DigitsValue(_)
DigitsValue(s) ==
    IF s = <<>> THEN 0
    ELSE DigitsValue(SubSeq(s, 1, Len(s) - 1)) * 10 + DigitVal(s[Len(s)])

AllDigits(s) == s # <<>> /\ \A i \in 1..Len(s) : s[i] \in Digits

RECURSIVE LStrip(_)
LStrip(s) == IF s # <<>> /\ s[1] = " " THEN LStrip(Tail(s)) ELSE s

RECURSIVE RStrip(_)
RStrip(s) ==
    IF s # <<>> /\ s[Len(s)] = " " THEN RStrip(SubSeq(s, 1, Len(s) - 1)) ELSE s

Strip(s) == RStrip(LStrip(s))

\* The characters of s before its first "." (all of s when it has none).
RECURSIVE BeforePoint(_)
BeforePoint(s) ==
    IF s = <<>> \/ s[1] = "." THEN <<>> ELSE <<s[1]>> \o BeforePoint(Tail(s))

PyFail == [ok |-> FALSE, v |-> 0]
PyOk(n) == [ok |-> TRUE, v |-> n]

\* Python's int(x): an int is itself, a float is truncated, a string is
\* stripped and must then be all digits, None raises TypeError.
PyInt(x) ==
    CASE x.t = "int" -> PyOk(DigitsValue(x.s))
      [] x.t = "float" -> PyOk(DigitsValue(BeforePoint(x.s)))
      [] x.t = "str" ->
            IF AllDigits(Strip(x.s)) THEN PyOk(DigitsValue(Strip(x.s))) ELSE PyFail
      [] OTHER -> PyFail

\* a lower() that changes nothing
LowerAsWritten(s) == s

\* str.lower() on the strings the model uses.
Lower(s) ==
    CASE s = "Digital" -> "digital"
      [] s = "RESIDENT1" -> "resident1"
      [] s = "Resident1" -> "resident1"
      [] s = "RESIDENT2" -> "resident2"
      [] s = "Resident2" -> "resident2"
      [] s = "DIGITAL" -> "digital"
      [] s = "A" -> "a"
      [] s = "B" -> "b"
      [] s = "I" -> "i"
      [] s = "Pickup" -> "pickup"
      [] s = "Physical" -> "physical"
      [] s = "Barangay" -> "barangay"
      [] s = "Ready" -> "ready"
      [] OTHER -> s

\* str(item).strip() is empty
IsBlank(s) == s \in {"", " ", "  "}

RECURSIVE SelectNonBlank(_)
SelectNonBlank(list) ==
    IF list = <<>> THEN <<>>
    ELSE IF IsBlank(Head(list)) THEN SelectNonBlank(Tail(list))
         ELSE <<Head(list)>> \o SelectNonBlank(Tail(list))

\* [f for f in files if getattr(f, 'filename', '')]
RECURSIVE NamedFiles(_)
NamedFiles(files) ==
    IF files = <<>> THEN <<>>
    ELSE IF Head(files) = "" THEN NamedFiles(Tail(files))
         ELSE <<Head(files)>> \o NamedFiles(Tail(files))

Take(s, n) == SubSeq(s, 1, Min(Len(s), n))

(***************************************************************************)
(* Rows the routes read but never write: users, municipalities, barangays  *)
(* and document types.                                                     *)
(***************************************************************************)
UserIds == {1, 2, 3, 4}

\* User.query.get(user_id): municipality_id and barangay_id of the profile.
Users ==
    [u \in UserIds |->
        CASE u = 1 -> [municipality_id |-> 1, barangay_id |-> 11]
          [] u = 2 -> [municipality_id |-> 2, barangay_id |-> 21]
          [] u = 3 -> [municipality_id |-> NoneId, barangay_id |-> NoneId]
          [] u = 4 -> [municipality_id |-> 1, barangay_id |-> NoneId]]

UserExists(u) == u \in UserIds

MunicipalityName(m) ==
    CASE m = 1 -> "Iba" [] m = 2 -> "Masinloc" [] OTHER -> None

BarangayName(b) ==
    CASE b = 11 -> "Palanginan" [] b = 21 -> "Collat" [] OTHER -> None

DocumentTypeIds == 1..6

NotAList == [is_list |-> FALSE, items |-> <<>>]
AList(entries) == [is_list |-> TRUE, items |-> entries]

\* DocumentType.query.get(document_type_id)
DocumentTypes ==
    [d \in DocumentTypeIds |->
        CASE d = 1 -> [is_active |-> TRUE, fee |-> 80, supports_digital |-> FALSE,
                       requirements |-> AList(<<"Valid ID", "Proof of residency", "Cedula">>)]
          [] d = 2 -> [is_active |-> TRUE, fee |-> 0, supports_digital |-> TRUE,
                       requirements |-> AList(<<"Valid ID", "Family profile sheet">>)]
          [] d = 3 -> [is_active |-> FALSE, fee |-> 0, supports_digital |-> TRUE,
                       requirements |-> AList(<<>>)]
          [] d = 4 -> [is_active |-> TRUE, fee |-> 0, supports_digital |-> TRUE,
                       requirements |-> AList(<<"Form", "  ", "Photo", "Proof", "ID",
                                                "Cedula", "Affidavit">>)]
          [] d = 5 -> [is_active |-> TRUE, fee |-> NoneId, supports_digital |-> TRUE,
                       requirements |-> NotAList]
          [] d = 6 -> [is_active |-> TRUE, fee |-> 50, supports_digital |-> TRUE,
                       requirements |-> AList(<<"", "  ">>)]]

(***************************************************************************)
(* Responses.                                                              *)
(***************************************************************************)
Response(route, status, error) ==
    [route |-> route, status |-> status, error |-> error, id |-> NoneId,
     valid |-> FALSE, reason |-> "", rolled_back |-> FALSE, files |-> <<>>,
     sent |-> FALSE, ticket |-> FALSE, ids |-> {}, rows |-> {},
     access_token |-> NoPath, username |-> "", count |-> 0]

RolledBack(r) == [r EXCEPT !.rolled_back = TRUE]

NoResponse == Response("", 0, "")

(***************************************************************************)
(* Helpers of apps.api.utils.                                              *)
(***************************************************************************)
\* validate_required_fields(data, required) of create_document_request: a missing
\* document_type_id, municipality_id, delivery_method or purpose raises
\* ValidationError.
MissingRequired(data) ==
    \/ data.document_type_id.t = "none"
    \/ data.municipality_id.t = "none"
    \/ data.delivery_method = None
    \/ data.purpose = None

\* save_document_request_file(upload, request_id, municipality_slug): the stored path.
SaveDocumentRequestFile(filename, rid) == <<"document_requests", rid, filename>>

\* save_benefit_document(upload, application_id, municipality_slug): the stored path.
SaveBenefitDocument(filename, aid) == <<"benefits", aid, filename>>

\* stored_paths: the path of each upload, in order
StoredRequestPaths(files, id) ==
    [i \in 1..Len(files) |-> SaveDocumentRequestFile(files[i], id)]

StoredBenefitPaths(files, id) ==
    [i \in 1..Len(files) |-> SaveBenefitDocument(files[i], id)]

(***************************************************************************)
(* routes/documents.py                                                     *)
(***************************************************************************)
RequestIds == {r.id : r \in requests}

\* DocumentRequest.query.get(request_id)
GetRequest(id) == CHOOSE r \in requests : r.id = id

\* the scoping check without the comparison
MunicipalityAllowedAnySet(user, municipality_id) == IsSet(user.municipality_id)

\* residents may only request in their registered municipality
MunicipalityAllowed(user, municipality_id) ==
    IsSet(user.municipality_id) /\ user.municipality_id = municipality_id

\* the attachment rule satisfied by any one file
RequirementCountAnyFile(dt) ==
    IF dt.requirements.is_list
    THEN Min(Len(SelectNonBlank(dt.requirements.items)), 1)
    ELSE 0

\* min(len(requirements), 5) of the non-blank entries of dt.requirements
RequirementCount(dt) ==
    IF dt.requirements.is_list
    THEN Min(Len(SelectNonBlank(dt.requirements.items)), 5)
    ELSE 0

\* uploaded_requirement_files: (primary or alternate or []) with a filename
UploadedRequirementFiles(in) ==
    IF in.is_multipart
    THEN NamedFiles(IF in.files.requirement_files # <<>>
                    THEN in.files.requirement_files
                    ELSE in.files.requirements_alt)
    ELSE <<>>

AdditionalFiles(in) ==
    IF in.is_multipart THEN NamedFiles(in.files.supporting_files) ELSE <<>>

\* digital_allowed without the fee
DigitalAllowedIgnoringFee(dt) == dt.supports_digital

\* is_zero_fee and digital_allowed
DigitalAllowed(dt) == dt.supports_digital /\ dt.fee <= 0

\* (data.get('pickup_location') or 'municipal').lower()
PickupLocation(data) ==
    IF data.pickup_location \in {None, ""} THEN "municipal"
    ELSE Lower(data.pickup_location)

\* a pickup address that ignores the pickup_location choice
PickupAddressMunicipalOnly(user, pickup_location) ==
    <<"Municipal Hall", MunicipalityName(user.municipality_id)>>

\* the derived pickup address: no free-text input
PickupAddress(user, pickup_location) ==
    IF pickup_location = "barangay" /\ IsSet(user.barangay_id)
    THEN <<"Barangay", BarangayName(user.barangay_id), "Hall",
           MunicipalityName(user.municipality_id)>>
    ELSE <<"Municipal Hall", MunicipalityName(user.municipality_id)>>

\* a row created already approved
NewRequestStatusApproved == "approved"

NewRequestStatus == "pending"

\* f"REQ-{user_id}-{User.query.count()}-{DocumentRequest.query.count()+1}"
RequestNumber(user_id) ==
    <<"REQ", user_id, Cardinality(UserIds), Cardinality(requests) + 1>>

\* the DocumentRequest(...) the route builds
NewDocumentRequest(in, user_id, municipality_id, document_type_id, provided_barangay_id) ==
    LET user == Users[user_id]
        requested_method == Lower(in.data.delivery_method)
        pickup_location == PickupLocation(in.data)
        selected_barangay_id ==
            IF pickup_location = "barangay" THEN user.barangay_id ELSE NoneId
    IN  [id |-> nextRequestId,
         request_number |-> RequestNumber(user_id),
         user_id |-> user_id,
         document_type_id |-> document_type_id,
         municipality_id |-> municipality_id,
         barangay_id |->
            IF requested_method = "pickup" THEN selected_barangay_id
            ELSE IF IsSet(provided_barangay_id) THEN provided_barangay_id
                 ELSE user.barangay_id,
         delivery_method |-> requested_method,
         delivery_address |->
            IF requested_method = "pickup" THEN PickupAddress(user, pickup_location)
            ELSE IF in.data.delivery_address = None THEN <<>>
                 ELSE <<in.data.delivery_address>>,
         supporting_documents |-> in.data.supporting_documents,
         status |-> NewRequestStatus,
         document_file |-> NoPath,
         qr_code |-> NoPath]

DocsUnchanged == UNCHANGED <<requests, nextRequestId>>
BenefitsUnchanged == UNCHANGED <<applications, nextApplicationId, programs>>

\* POST /api/documents/requests
CreateDocumentRequest(in) ==
    LET route == "create_document_request"
        Refuse(status, error) ==
            /\ resp' = Response(route, status, error)
            /\ DocsUnchanged
        Fail(error) ==
            /\ resp' = RolledBack(Response(route, 500, error))
        municipality == PyInt(in.data.municipality_id)
        type_id == PyInt(in.data.document_type_id)
        barangay == IF in.data.barangay_id.t = "none" \/ in.data.barangay_id.s = <<>>
                    THEN PyOk(NoneId) ELSE PyInt(in.data.barangay_id)
        uploaded == UploadedRequirementFiles(in)
        additional == AdditionalFiles(in)
    IN
    /\ in.route = route
    /\ nextRequestId <= MaxRequests
    /\ req' = in
    /\ OtherTablesUnchanged
    /\ pending' = FALSE
    /\ UNCHANGED <<now>>
    /\ BenefitsUnchanged
    /\ IF in.caller = NoneId THEN Refuse(401, "Invalid session")
       ELSE IF in.fault = "user_query"
            THEN Fail("Failed to create document request") /\ DocsUnchanged
       ELSE IF ~UserExists(in.caller) THEN Refuse(404, "User not found")
       ELSE IF MissingRequired(in.data) THEN Refuse(400, "Missing required field")
       ELSE IF ~municipality.ok THEN Refuse(400, "Invalid municipality_id")
       ELSE IF ~MunicipalityAllowed(Users[in.caller], municipality.v)
            THEN Refuse(403, "You can only request documents in your registered municipality")
       ELSE IF ~type_id.ok THEN Refuse(400, "Invalid document_type_id")
       ELSE IF type_id.v \notin DocumentTypeIds \/ ~DocumentTypes[type_id.v].is_active
            THEN Refuse(400, "Selected document type is not available")
       ELSE IF RequirementCount(DocumentTypes[type_id.v]) > 0
                /\ Len(uploaded) < RequirementCount(DocumentTypes[type_id.v])
            THEN Refuse(400, "Missing required attachments")
       ELSE IF Lower(in.data.delivery_method) = "digital"
                /\ ~DigitalAllowed(DocumentTypes[type_id.v])
            THEN Refuse(400, "This document can only be requested for in-person pickup")
       ELSE IF ~IsSet(Users[in.caller].barangay_id)
            THEN Refuse(400, "Please complete your barangay details")
       ELSE IF ~barangay.ok THEN Refuse(400, "Invalid barangay_id")
       ELSE
         LET row == NewDocumentRequest(in, in.caller, municipality.v, type_id.v, barangay.v)
             stored == StoredRequestPaths(uploaded \o additional, row.id)
             saved == [row EXCEPT !.supporting_documents = @ \o stored]
             has_files == uploaded \o additional # <<>>
         IN
         IF in.fault = "commit"
         THEN Fail("Failed to create document request") /\ DocsUnchanged
         ELSE IF has_files /\ in.fault = "municipality_query"
         THEN \* raised after the commit, outside the inner try
              /\ Fail("Failed to create document request")
              /\ requests' = requests \cup {row}
              /\ nextRequestId' = nextRequestId + 1
         ELSE IF has_files /\ in.fault = "save_file"
         THEN \* rollback, delete the row, commit
              /\ Fail("Failed to save attachments")
              /\ requests' = requests
              /\ nextRequestId' = nextRequestId + 1
         ELSE IF in.fault = "to_dict"
         THEN /\ Fail("Failed to create document request")
              /\ requests' = requests \cup {saved}
              /\ nextRequestId' = nextRequestId + 1
         ELSE /\ resp' = [Response(route, 201, "") EXCEPT !.id = row.id]
              /\ requests' = requests \cup {saved}
              /\ nextRequestId' = nextRequestId + 1

\* GET /api/documents/types
ListDocumentTypes(in) ==
    LET route == "list_document_types" IN
    /\ in.route = route
    /\ req' = in
    /\ OtherTablesUnchanged
    /\ resp' = IF in.fault = "query"
               THEN Response(route, 500, "Failed to get document types")
               ELSE Response(route, 200, "")
    /\ pending' = FALSE /\ UNCHANGED now
    /\ DocsUnchanged
    /\ BenefitsUnchanged

\* DocumentRequest.query.get(request_id), over a document_requests table
RowOf(table, id) == CHOOSE r \in table : r.id = id

\* the row exists, whoever owns it
OwnedByAnyone(table, id, caller) == \E r \in table : r.id = id

\* not (not r or r.user_id != user_id)
Owned(table, id, caller) == \E r \in table : r.id = id /\ r.user_id = caller

\* the answer of get_my_requests over a document_requests table
MyRequestsAnswer(table, in) ==
    LET route == "get_my_requests"
        requests_q == {r \in table : r.user_id = in.caller}
    IN  IF in.caller = NoneId THEN Response(route, 401, "Invalid session")
        ELSE IF in.fault = "query"
             THEN Response(route, 500, "Failed to get document requests")
        ELSE [Response(route, 200, "") EXCEPT
                 !.ids = {r.id : r \in requests_q}, !.rows = requests_q]

\* GET /api/documents/my-requests
GetMyRequests(in) ==
    /\ in.route = "get_my_requests"
    /\ req' = in
    /\ OtherTablesUnchanged
    /\ resp' = MyRequestsAnswer(requests, in)
    /\ pending' = FALSE /\ UNCHANGED now
    /\ DocsUnchanged
    /\ BenefitsUnchanged

\* the answer of get_request_detail over a document_requests table
RequestDetailAnswer(table, in) ==
    LET route == "get_request_detail" IN
    IF in.caller = NoneId THEN Response(route, 401, "Invalid session")
    ELSE IF in.fault = "query" THEN Response(route, 500, "Failed to get request")
    ELSE IF ~Owned(table, in.id, in.caller) THEN Response(route, 404, "Request not found")
    ELSE [Response(route, 200, "") EXCEPT !.id = in.id, !.rows = {RowOf(table, in.id)}]

\* GET /api/documents/requests/<id>
GetRequestDetail(in) ==
    /\ in.route = "get_request_detail"
    /\ req' = in
    /\ OtherTablesUnchanged
    /\ resp' = RequestDetailAnswer(requests, in)
    /\ pending' = FALSE /\ UNCHANGED now
    /\ DocsUnchanged
    /\ BenefitsUnchanged

\* every delivery method counted as a pickup
IsPickupRequestAlways(r) == TRUE

\* (r.delivery_method or '').lower() in ('physical', 'pickup')
IsPickupRequest(r) == Lower(r.delivery_method) \in {"physical", "pickup"}

\* the answer of get_claim_ticket over a document_requests table
ClaimTicketAnswer(table, in) ==
    LET route == "get_claim_ticket" IN
    IF in.caller = NoneId THEN Response(route, 401, "Invalid session")
    ELSE IF in.fault = "query" THEN Response(route, 500, "Failed to get claim ticket")
    ELSE IF ~Owned(table, in.id, in.caller) THEN Response(route, 404, "Request not found")
    ELSE IF ~IsPickupRequest(RowOf(table, in.id))
         THEN Response(route, 400, "Not a pickup request")
    ELSE [Response(route, 200, "") EXCEPT
             !.id = in.id, !.ticket = RowOf(table, in.id).qr_code # NoPath]

\* GET /api/documents/requests/<id>/claim-ticket
GetClaimTicket(in) ==
    /\ in.route = "get_claim_ticket"
    /\ req' = in
    /\ OtherTablesUnchanged
    /\ resp' = ClaimTicketAnswer(requests, in)
    /\ pending' = FALSE /\ UNCHANGED now
    /\ DocsUnchanged
    /\ BenefitsUnchanged

\* the answer without the check of the status
VerifyRowAnyStatus(r) ==
    LET route == "public_verify_document"
        Invalid(reason) == [Response(route, 200, "") EXCEPT !.reason = reason]
    IN  IF Lower(r.delivery_method) # "digital" THEN Invalid("not_digital")
        ELSE IF r.document_file = NoPath THEN Invalid("no_file")
        ELSE [Response(route, 200, "") EXCEPT !.valid = TRUE, !.id = r.id]

\* the answer of public_verify_document for the row r that .first() returned
VerifyRow(r) ==
    LET route == "public_verify_document"
        Invalid(reason) == [Response(route, 200, "") EXCEPT !.reason = reason]
    IN  IF Lower(r.delivery_method) # "digital" THEN Invalid("not_digital")
        ELSE IF r.document_file = NoPath THEN Invalid("no_file")
        ELSE IF Lower(r.status) \notin {"ready", "completed"}
             THEN Invalid("status_" \o Lower(r.status))
        ELSE [Response(route, 200, "") EXCEPT !.valid = TRUE, !.id = r.id]

\* GET /api/documents/verify/<request_number>
PublicVerifyDocument(in) ==
    LET route == "public_verify_document"
        matches == {r \in requests : r.request_number = in.request_number}
    IN
    /\ in.route = route
    /\ req' = in
    /\ OtherTablesUnchanged
    /\ IF in.fault = "query" THEN resp' = Response(route, 500, "query failed")
       ELSE IF matches = {}
            THEN resp' = [Response(route, 200, "") EXCEPT !.reason = "not_found"]
       ELSE \E r \in matches : resp' = VerifyRow(r)
    /\ pending' = FALSE /\ UNCHANGED now
    /\ DocsUnchanged
    /\ BenefitsUnchanged

\* an upload that also sends the request back to review
WithUploadsReopen(r, saved) ==
    [r EXCEPT !.supporting_documents = @ \o saved, !.status = "pending"]

\* r.supporting_documents = existing + saved
WithUploads(r, saved) == [r EXCEPT !.supporting_documents = @ \o saved]

\* the answer of upload_request_files over a document_requests table
UploadRequestFilesAnswer(table, in) ==
    LET route == "upload_request_files"
        Fail(error) == RolledBack(Response(route, 500, error))
    IN  IF in.caller = NoneId THEN Response(route, 401, "Invalid session")
        ELSE IF in.fault = "query" THEN Fail("Failed to upload files")
        ELSE IF ~Owned(table, in.id, in.caller) THEN Response(route, 404, "Request not found")
        ELSE IF in.files = <<>> THEN Response(route, 400, "No files uploaded")
        ELSE IF in.fault = "validation" THEN Response(route, 400, "Invalid file")
        ELSE IF in.fault \in {"save_file", "commit"} THEN Fail("Failed to upload files")
        ELSE LET r == RowOf(table, in.id)
                 saved == StoredRequestPaths(in.files, r.id)
             IN  [Response(route, 200, "") EXCEPT
                     !.id = r.id, !.files = saved, !.rows = {WithUploads(r, saved)}]

\* POST /api/documents/requests/<id>/upload
UploadRequestFiles(in) ==
    LET answer == UploadRequestFilesAnswer(requests, in) IN
    /\ in.route = "upload_request_files"
    /\ req' = in
    /\ OtherTablesUnchanged
    /\ resp' = answer
    /\ pending' = FALSE
    /\ UNCHANGED <<now, nextRequestId>>
    /\ BenefitsUnchanged
    /\ requests' = IF answer.status = 200
                   THEN (requests \ {RowOf(requests, in.id)}) \cup answer.rows
                   ELSE requests

(***************************************************************************)
(* routes/admin.py: the administrator's status changes on document         *)
(* requests (pending -> approved / rejected, approved -> ready,            *)
(* ready -> completed).                                                    *)
(***************************************************************************)
SetRow(r, new) ==
    /\ requests' = (requests \ {r}) \cup {new}
    /\ pending' = FALSE
    /\ UNCHANGED <<nextRequestId, now>>
    /\ BenefitsUnchanged

ClaimTicketFor(r) ==
    IF r.delivery_method \in {"pickup", "physical"} THEN <<"qr", r.id>> ELSE NoPath

\* approve a pending request; a pickup request gets its claim ticket
AdminApproveRequest(r) ==
    /\ r.status = "pending"
    /\ req' = [route |-> "admin_approve_request", id |-> r.id]
    /\ OtherTablesUnchanged
    /\ resp' = [Response("admin_approve_request", 200, "") EXCEPT !.id = r.id]
    /\ SetRow(r, [r EXCEPT !.status = "approved", !.qr_code = ClaimTicketFor(r)])

\* reject a pending request
AdminRejectRequest(r) ==
    /\ r.status = "pending"
    /\ req' = [route |-> "admin_reject_request", id |-> r.id]
    /\ OtherTablesUnchanged
    /\ resp' = [Response("admin_reject_request", 200, "") EXCEPT !.id = r.id]
    /\ SetRow(r, [r EXCEPT !.status = "rejected"])

\* POST /api/admin/documents/requests/<id>/generate-pdf
AdminGeneratePdf(r) ==
    /\ r.status = "approved"
    /\ req' = [route |-> "admin_generate_pdf", id |-> r.id]
    /\ OtherTablesUnchanged
    /\ resp' = [Response("admin_generate_pdf", 200, "") EXCEPT !.id = r.id]
    /\ SetRow(r, [r EXCEPT !.status = "ready",
                            !.document_file = <<"generated_docs", r.id>>])

\* mark an approved pickup request ready for pickup
AdminMarkReady(r) ==
    /\ r.status = "approved"
    /\ req' = [route |-> "admin_mark_ready", id |-> r.id]
    /\ OtherTablesUnchanged
    /\ resp' = [Response("admin_mark_ready", 200, "") EXCEPT !.id = r.id]
    /\ SetRow(r, [r EXCEPT !.status = "ready"])

\* complete a ready request
AdminCompleteRequest(r) ==
    /\ r.status = "ready"
    /\ req' = [route |-> "admin_complete_request", id |-> r.id]
    /\ OtherTablesUnchanged
    /\ resp' = [Response("admin_complete_request", 200, "") EXCEPT !.id = r.id]
    /\ SetRow(r, [r EXCEPT !.status = "completed"])

(***************************************************************************)
(* routes/benefits.py                                                      *)
(***************************************************************************)
ProgramIds == 1..4

\* the benefit_programs table before any request
InitialPrograms ==
    [p \in ProgramIds |->
        CASE p = 1 -> [is_active |-> TRUE, is_accepting_applications |-> TRUE,
                       municipality_id |-> 1, duration_days |-> 1, created_at |-> 0,
                       completed |-> FALSE, current_beneficiaries |-> 0,
                       required_documents |-> AList(<<"Certificate of Indigency",
                                                      "Medical abstract">>)]
          [] p = 2 -> [is_active |-> TRUE, is_accepting_applications |-> TRUE,
                       municipality_id |-> NoneId, duration_days |-> NoneId,
                       created_at |-> 0, completed |-> FALSE, current_beneficiaries |-> 0,
                       required_documents |-> AList(<<"Valid ID">>)]
          [] p = 3 -> [is_active |-> TRUE, is_accepting_applications |-> TRUE,
                       municipality_id |-> 2, duration_days |-> NoneId,
                       created_at |-> 0, completed |-> FALSE, current_beneficiaries |-> 0,
                       required_documents |-> AList(<<"Grades", "", "Good moral", "ITR",
                                                      "ID", "Photo", "Form">>)]
          [] p = 4 -> [is_active |-> FALSE, is_accepting_applications |-> FALSE,
                       municipality_id |-> 1, duration_days |-> NoneId,
                       created_at |-> 0, completed |-> FALSE, current_beneficiaries |-> 0,
                       required_documents |-> NotAList]]

ApplicationIds == {a.id : a \in applications}

\* BenefitApplication.query.get(application_id)
GetApplication(id) == CHOOSE a \in applications : a.id = id

\* an expiry test that spares the program on the day its duration ends
ExpiredStrictly(p) ==
    p.is_active /\ IsSet(p.duration_days) /\ p.created_at + p.duration_days < now

\* the count of approved applications per program (public view)
ApprovedCount(p) ==
    Cardinality({a \in applications : a.program_id = p /\ a.status = "approved"})

\* created_at + timedelta(days=duration_days) <= now
Expired(p) ==
    p.is_active /\ IsSet(p.duration_days) /\ p.created_at + p.duration_days <= now

Complete(p) ==
    [p EXCEPT !.is_active = FALSE, !.is_accepting_applications = FALSE,
              !.completed = TRUE]

\* the rows list_programs selects: active, of the municipality or province-wide
Listed(municipality_id) ==
    {p \in ProgramIds :
        /\ programs[p].is_active
        /\ IsSet(municipality_id) =>
              programs[p].municipality_id \in {municipality_id, NoneId}}

\* GET /api/benefits/programs
ListPrograms(in) ==
    LET route == "list_programs"
        listed == Listed(in.municipality_id)
        expired == {p \in listed : Expired(programs[p])}
    IN
    /\ in.route = route
    /\ req' = in
    /\ OtherTablesUnchanged
    /\ UNCHANGED <<applications, nextApplicationId, now>>
    /\ DocsUnchanged
    /\ IF in.fault = "query"
       THEN /\ resp' = Response(route, 500, "Failed to get programs")
            /\ pending' = FALSE
            /\ UNCHANGED programs
       ELSE IF expired # {} /\ in.fault = "commit"
       THEN \* the commit raises: the changed rows stay in the session
            /\ resp' = Response(route, 500, "Failed to get programs")
            /\ pending' = TRUE
            /\ UNCHANGED programs
       ELSE /\ programs' = [p \in ProgramIds |->
                              IF p \in expired THEN Complete(programs[p]) ELSE programs[p]]
            \* current_beneficiaries is set on the listed objects after the
            \* commit and is never committed: it reaches the answer only
            /\ resp' = [Response(route, 200, "") EXCEPT
                           !.ids = listed \ expired,
                           !.rows = {[id |-> p, current_beneficiaries |-> ApprovedCount(p)] :
                                        p \in listed \ expired},
                           !.count = Cardinality(listed \ expired)]
            /\ pending' = FALSE

\* GET /api/benefits/programs/<id>
GetProgram(in) ==
    LET route == "get_program" IN
    /\ in.route = route
    /\ req' = in
    /\ OtherTablesUnchanged
    /\ resp' =
         IF in.fault = "query" THEN Response(route, 500, "Failed to get program")
         ELSE IF in.id \notin ProgramIds \/ ~programs[in.id].is_active
              THEN Response(route, 404, "Program not found")
         ELSE [Response(route, 200, "") EXCEPT !.id = in.id]
    /\ pending' = FALSE /\ UNCHANGED now
    /\ DocsUnchanged
    /\ BenefitsUnchanged

\* required_docs[:5]
RequiredDocs(program) ==
    IF program.required_documents.is_list
    THEN Take(SelectNonBlank(program.required_documents.items), 5)
    ELSE <<>>

\* a scoping check that lets every municipality in
ProgramInScopeAnywhere(user, program) == TRUE

\* municipality scoping: province-wide (None) or the user's municipality
ProgramInScope(user, program) ==
    ~(IsSet(program.municipality_id) /\ user.municipality_id # program.municipality_id)

NewApplicationStatus == "pending"

\* f"APP-{user.municipality_id}-{user_id}-{count}"
ApplicationNumber(user_id) ==
    <<"APP", Users[user_id].municipality_id, user_id, Cardinality(applications) + 1>>

NewApplication(user_id, program_id) ==
    [id |-> nextApplicationId,
     application_number |-> ApplicationNumber(user_id),
     user_id |-> user_id,
     program_id |-> program_id,
     supporting_documents |-> <<>>,
     status |-> NewApplicationStatus]

\* POST /api/benefits/applications
CreateApplication(in) ==
    LET route == "create_application"
        AppsUnchanged == UNCHANGED <<applications, nextApplicationId>>
        Refuse(status, error) == resp' = Response(route, status, error) /\ AppsUnchanged
        Fail(error) == resp' = RolledBack(Response(route, 500, error))
        program_id == PyInt(in.data.program_id)
        uploaded == UploadedRequirementFiles(in)
        additional == AdditionalFiles(in)
    IN
    /\ in.route = route
    /\ nextApplicationId <= MaxApplications
    /\ req' = in
    /\ OtherTablesUnchanged
    /\ pending' = FALSE
    /\ UNCHANGED <<programs, now>>
    /\ DocsUnchanged
    /\ IF in.caller = NoneId THEN Refuse(401, "Invalid session")
       ELSE IF in.fault = "user_query"
            THEN Fail("Failed to create application") /\ AppsUnchanged
       ELSE IF ~UserExists(in.caller) THEN Refuse(404, "User not found")
       ELSE IF in.data.program_id.t = "none" THEN Refuse(400, "Missing required field")
       ELSE IF ~program_id.ok THEN Refuse(400, "Invalid program_id")
       ELSE IF program_id.v \notin ProgramIds \/ ~programs[program_id.v].is_active
            THEN Refuse(400, "Invalid program")
       ELSE IF ~ProgramInScope(Users[in.caller], programs[program_id.v])
            THEN Refuse(403, "Program not available for your municipality")
       ELSE IF RequiredDocs(programs[program_id.v]) # <<>>
                /\ Len(uploaded) < Len(RequiredDocs(programs[program_id.v]))
            THEN Refuse(400, "Missing required attachments")
       ELSE
         LET row == NewApplication(in.caller, program_id.v)
             stored == StoredBenefitPaths(uploaded \o additional, row.id)
             saved == [row EXCEPT !.supporting_documents = @ \o stored]
             has_files == uploaded \o additional # <<>>
         IN
         IF in.fault = "commit"
         THEN Fail("Failed to create application") /\ AppsUnchanged
         ELSE IF has_files /\ in.fault = "municipality_query"
         THEN /\ Fail("Failed to create application")
              /\ applications' = applications \cup {row}
              /\ nextApplicationId' = nextApplicationId + 1
         ELSE IF has_files /\ in.fault = "save_file"
         THEN /\ Fail("Failed to save attachments")
              /\ applications' = applications
              /\ nextApplicationId' = nextApplicationId + 1
         ELSE IF in.fault = "to_dict"
         THEN /\ Fail("Failed to create application")
              /\ applications' = applications \cup {saved}
              /\ nextApplicationId' = nextApplicationId + 1
         ELSE /\ resp' = [Response(route, 201, "") EXCEPT !.id = row.id]
              /\ applications' = applications \cup {saved}
              /\ nextApplicationId' = nextApplicationId + 1

\* GET /api/benefits/my-applications
MyApplications(in) ==
    LET route == "my_applications" IN
    /\ in.route = route
    /\ req' = in
    /\ OtherTablesUnchanged
    /\ resp' =
         IF in.caller = NoneId THEN Response(route, 401, "Invalid session")
         ELSE IF in.fault = "query" THEN Response(route, 500, "Failed to get applications")
         ELSE Response(route, 200, "")
    /\ pending' = FALSE /\ UNCHANGED now
    /\ DocsUnchanged
    /\ BenefitsUnchanged

\* existing.append(rel_path); app.supporting_documents = existing
WithDocument(a, path) == [a EXCEPT !.supporting_documents = Append(@, path)]

\* POST /api/benefits/applications/<id>/upload
UploadApplicationDoc(in) ==
    LET route == "upload_application_doc"
        AppsUnchanged == UNCHANGED <<applications, nextApplicationId>>
        Refuse(status, error) == resp' = Response(route, status, error) /\ AppsUnchanged
        Fail(error) == resp' = RolledBack(Response(route, 500, error)) /\ AppsUnchanged
    IN
    /\ in.route = route
    /\ req' = in
    /\ OtherTablesUnchanged
    /\ pending' = FALSE
    /\ UNCHANGED <<programs, now>>
    /\ DocsUnchanged
    /\ IF in.caller = NoneId THEN Refuse(401, "Invalid session")
       ELSE IF in.fault = "query" THEN Fail("Failed to upload file")
       ELSE IF in.id \notin ApplicationIds THEN Refuse(404, "Application not found")
       ELSE IF GetApplication(in.id).user_id # in.caller THEN Refuse(403, "Forbidden")
       ELSE IF in.files = <<>> THEN Refuse(400, "No file uploaded")
       ELSE IF in.fault = "validation" THEN Refuse(400, "Invalid file")
       ELSE IF in.fault \in {"save_file", "commit"} THEN Fail("Failed to upload file")
       ELSE
         LET a == GetApplication(in.id)
             path == SaveBenefitDocument(Head(in.files), a.id)
         IN /\ applications' = (applications \ {a}) \cup {WithDocument(a, path)}
            /\ UNCHANGED nextApplicationId
            /\ resp' = [Response(route, 200, "") EXCEPT !.id = a.id, !.files = <<path>>]

\* routes/admin.py: the administrator decides a pending application
AdminDecideApplication(a, status) ==
    /\ a.status = "pending"
    /\ req' = [route |-> "admin_decide_application", id |-> a.id]
    /\ OtherTablesUnchanged
    /\ resp' = [Response("admin_decide_application", 200, "") EXCEPT !.id = a.id]
    /\ applications' = (applications \ {a}) \cup {[a EXCEPT !.status = status]}
    /\ pending' = FALSE
    /\ UNCHANGED <<nextApplicationId, programs, now>>
    /\ DocsUnchanged

\* a day passes
Tick ==
    /\ now < MaxNow
    /\ now' = now + 1
    /\ UNCHANGED <<pending, req, resp>>
    /\ OtherTablesUnchanged
    /\ DocsUnchanged
    /\ BenefitsUnchanged

(***************************************************************************)
(* app.py: GET /uploads/<path:filename>.  A filename is a sequence of      *)
(* path tokens: "/", "\\", "..", and names that hold no separator.         *)
(***************************************************************************)
AllowedPrefixes ==
    {"marketplace", "announcements", "profiles", "verification",
     "document_requests", "benefits", "issues", "generated_docs", "exports"}

\* filename.replace('\\', '/')
RECURSIVE ReplaceBackslash(_)
ReplaceBackslash(f) ==
    IF f = <<>> THEN <<>>
    ELSE <<IF Head(f) = "\\" THEN "/" ELSE Head(f)>> \o ReplaceBackslash(Tail(f))

\* .lstrip('/')
RECURSIVE LStripSlash(_)
LStripSlash(f) == IF f # <<>> /\ Head(f) = "/" THEN LStripSlash(Tail(f)) ELSE f

Normalize(filename) == LStripSlash(ReplaceBackslash(filename))

\* the allowlist matched on the directory name alone
AllowedByName(normalized) ==
    /\ Len(normalized) >= 1
    /\ normalized[1] \in AllowedPrefixes

\* any(normalized.startswith(p) for p in allowed_prefixes)
Allowed(normalized) ==
    /\ Len(normalized) >= 2
    /\ normalized[1] \in AllowedPrefixes
    /\ normalized[2] = "/"

\* the path split at its slashes
RECURSIVE SplitPath(_, _)
SplitPath(path, current) ==
    IF path = <<>> THEN <<current>>
    ELSE IF Head(path) = "/" THEN <<current>> \o SplitPath(Tail(path), <<>>)
         ELSE SplitPath(Tail(path), Append(current, Head(path)))

DotDot == <<"..">>

\* posixpath.normpath of a relative path: empty segments dropped, '..' takes
\* back the segment before it
RECURSIVE NormPath(_, _)
NormPath(segments, done) ==
    IF segments = <<>> THEN done
    ELSE LET seg == Head(segments) IN
         NormPath(Tail(segments),
                  IF seg = <<>> THEN done
                  ELSE IF seg = DotDot /\ done # <<>> /\ done[Len(done)] # DotDot
                       THEN SubSeq(done, 1, Len(done) - 1)
                       ELSE Append(done, seg))

\* the file below the upload folder that send_from_directory opens
Resolved(normalized) == NormPath(SplitPath(normalized, <<>>), <<>>)

\* safe_join refuses a path that leaves the directory
LeavesDirectory(resolved) == resolved # <<>> /\ resolved[1] = DotDot

\* os.path.isfile: the upload folder and its allowlisted subdirectories are
\* directories; anything else is a file when the request says it exists
IsFile(resolved, exists) ==
    /\ exists
    /\ resolved # <<>>
    /\ ~(Len(resolved) = 1 /\ \E p \in AllowedPrefixes : resolved[1] = <<p>>)

ServeUploadedFile(in) ==
    LET route == "serve_uploaded_file"
        normalized == Normalize(in.filename)
        resolved == Resolved(normalized)
    IN
    /\ in.route = route
    /\ req' = in
    /\ OtherTablesUnchanged
    /\ resp' =
         IF in.method = "OPTIONS" THEN Response(route, 200, "")
         ELSE IF ~Allowed(normalized) THEN Response(route, 403, "Forbidden")
         ELSE IF LeavesDirectory(resolved)
              THEN [Response(route, 404, "Resource not found") EXCEPT !.sent = TRUE]
         ELSE IF IsFile(resolved, in.exists)
              THEN [Response(route, 200, "") EXCEPT !.sent = TRUE]
         ELSE [Response(route, 404, "File not found") EXCEPT !.sent = TRUE]
    /\ pending' = FALSE
    /\ UNCHANGED now
    /\ DocsUnchanged
    /\ BenefitsUnchanged

(***************************************************************************)
(* Requests: the inputs the handlers are driven with.                      *)
(***************************************************************************)
NoRequest == [route |-> ""]

NoFiles == [requirement_files |-> <<>>, requirements_alt |-> <<>>, supporting_files |-> <<>>]

DocData(municipality_id, document_type_id, delivery_method) ==
    [municipality_id |-> municipality_id, document_type_id |-> document_type_id,
     delivery_method |-> delivery_method, purpose |-> "Scholarship assistance",
     pickup_location |-> None, barangay_id |-> JNone, delivery_address |-> None,
     supporting_documents |-> <<>>]

\* a JSON POST /api/documents/requests
JsonDocRequest(caller, data) ==
    [route |-> "create_document_request", caller |-> caller, is_multipart |-> FALSE,
     fault |-> "none", data |-> data, files |-> NoFiles]

\* a multipart/form-data POST /api/documents/requests
FormDocRequest(caller, data, files) ==
    [route |-> "create_document_request", caller |-> caller, is_multipart |-> TRUE,
     fault |-> "none", data |-> data, files |-> files]

RequirementFiles(primary, alternate, supporting) ==
    [requirement_files |-> primary, requirements_alt |-> alternate,
     supporting_files |-> supporting]

\* the user's own municipality as the client sends it
OwnMunicipality(u) == IF u = 2 THEN JInt(<<"2">>) ELSE JInt(<<"1">>)

\* the creations of the lifecycle specification
LifecycleCreations ==
    {JsonDocRequest(1, DocData(OwnMunicipality(1), JInt(<<"5">>), "pickup")),
     JsonDocRequest(2, DocData(OwnMunicipality(2), JInt(<<"5">>), "Digital")),
     JsonDocRequest(2, DocData(OwnMunicipality(1), JInt(<<"5">>), "pickup")),
     JsonDocRequest(1, DocData(OwnMunicipality(1), JInt(<<"1">>), "digital"))}

Callers == {1, 2}

RECURSIVE SumLen(_)
SumLen(rows) ==
    IF rows = {} THEN 0
    ELSE LET r == CHOOSE x \in rows : TRUE
         IN  Len(r.supporting_documents) + SumLen(rows \ {r})

\* the attachments stored so far, over all rows
StoredDocuments == SumLen(requests) + SumLen(applications)

RequestNumbers == {r.request_number : r \in requests} \cup {<<"REQ", 9, 9, 9>>}

(***************************************************************************)
(* The lifecycle of document requests: residents create and read, the      *)
(* administrator decides.                                                  *)
(***************************************************************************)
EmptyDatabase ==
    /\ requests = {}
    /\ nextRequestId = 1
    /\ applications = {}
    /\ nextApplicationId = 1
    /\ programs = InitialPrograms
    /\ pending = FALSE

Init ==
    /\ EmptyDatabase
    /\ now = 0
    /\ req = NoRequest
    /\ resp = NoResponse
    /\ OtherTablesEmpty

Next ==
    \/ \E in \in LifecycleCreations : CreateDocumentRequest(in)
    \/ \E u \in Callers, id \in 1..MaxRequests :
          GetClaimTicket([route |-> "get_claim_ticket", caller |-> u, id |-> id,
                          fault |-> "none"])
    \/ \E n \in RequestNumbers :
          PublicVerifyDocument([route |-> "public_verify_document",
                                request_number |-> n, fault |-> "none"])
    \/ \E u \in Callers, id \in 1..MaxRequests :
          /\ StoredDocuments < MaxUploads
          /\ UploadRequestFiles([route |-> "upload_request_files", caller |-> u,
                                 id |-> id, files |-> <<"id.png">>, fault |-> "none"])
    \/ \E r \in requests : AdminApproveRequest(r)
    \/ \E r \in requests : AdminRejectRequest(r)
    \/ \E r \in requests : AdminGeneratePdf(r)
    \/ \E r \in requests : AdminMarkReady(r)
    \/ \E r \in requests : AdminCompleteRequest(r)

Spec == Init /\ [][Next]_vars

(***************************************************************************)
(* One creation request, answered once: the inputs of                      *)
(* create_document_request and create_application.                         *)
(***************************************************************************)
ClientCallers == {NoneId, 1, 2, 3, 4, 9}

JsonIds ==
    {JNone, JInt(<<"1">>), JInt(<<"2">>), JFloat(<<"1", ".", "5">>),
     JStr(<<"1">>), JStr(<<" ", "2", " ">>), JStr(<<"x">>), JStr(<<"1", ".", "5">>)}

FormIds == {v \in JsonIds : v.t \in {"str", "none"}}

JsonTypeIds ==
    {JNone, JInt(<<"1">>), JInt(<<"2">>), JInt(<<"3">>), JInt(<<"4">>), JInt(<<"5">>),
     JInt(<<"6">>), JInt(<<"9">>), JStr(<<"2">>), JStr(<<"x">>)}

FormTypeIds ==
    {JNone, JStr(<<"1">>), JStr(<<"2">>), JStr(<<"3">>), JStr(<<"4">>), JStr(<<"5">>),
     JStr(<<"6">>), JStr(<<"9">>), JStr(<<"x">>)}

DeliveryMethods == {None, "pickup", "digital", "Digital", "DIGITAL", "physical", "courier"}

UploadSets ==
    {NoFiles,
     RequirementFiles(<<"a.png">>, <<>>, <<>>),
     RequirementFiles(<<"a.png", "">>, <<"x.png", "y.png", "z.png">>, <<>>),
     RequirementFiles(<<"a.png", "b.png">>, <<>>, <<"s.png">>),
     RequirementFiles(<<>>, <<"x.png", "y.png", "z.png">>, <<>>),
     RequirementFiles(<<"a.png", "b.png", "c.png", "d.png">>, <<>>, <<"s.png">>),
     RequirementFiles(<<"a.png", "b.png", "c.png", "d.png", "e.png">>, <<>>, <<>>),
     RequirementFiles(<<"", "">>, <<>>, <<"s.png">>)}

CreationFaults == {"none", "user_query", "commit", "municipality_query", "save_file", "to_dict"}

DocCreations ==
    {JsonDocRequest(u, DocData(m, d, dm)) :
        u \in ClientCallers, m \in JsonIds, d \in JsonTypeIds, dm \in DeliveryMethods}
    \cup
    {FormDocRequest(u, DocData(m, d, dm), f) :
        u \in ClientCallers, m \in FormIds, d \in FormTypeIds,
        dm \in DeliveryMethods, f \in UploadSets}

WithFault(in, fault) == [in EXCEPT !.fault = fault]

AppRequest(caller, is_multipart, program_id, files) ==
    [route |-> "create_application", caller |-> caller, is_multipart |-> is_multipart,
     fault |-> "none", data |-> [program_id |-> program_id], files |-> files]

JsonProgramIds ==
    {JNone, JInt(<<"1">>), JInt(<<"2">>), JInt(<<"3">>), JInt(<<"4">>), JInt(<<"9">>),
     JStr(<<"2">>), JStr(<<"x">>)}

FormProgramIds ==
    {JNone, JStr(<<"1">>), JStr(<<"2">>), JStr(<<"3">>), JStr(<<"4">>), JStr(<<"x">>)}

AppCreations ==
    {AppRequest(u, FALSE, p, NoFiles) : u \in ClientCallers, p \in JsonProgramIds}
    \cup
    {AppRequest(u, TRUE, p, f) : u \in ClientCallers, p \in FormProgramIds, f \in UploadSets}

\* a creation that passes every check, with each fault
FaultedCreations ==
    {WithFault(in, f) :
        in \in {FormDocRequest(1, DocData(JStr(<<"1">>), JStr(<<"2">>), "pickup"),
                               RequirementFiles(<<"a.png", "b.png">>, <<>>, <<"s.png">>)),
                JsonDocRequest(2, DocData(JInt(<<"2">>), JInt(<<"5">>), "digital")),
                AppRequest(2, TRUE, JStr(<<"2">>), RequirementFiles(<<"a.png">>, <<>>, <<>>)),
                AppRequest(1, FALSE, JInt(<<"4">>), NoFiles)},
        f \in CreationFaults}

InitCreate ==
    /\ EmptyDatabase
    /\ now = 0
    /\ req \in DocCreations \cup AppCreations \cup FaultedCreations
    /\ resp = NoResponse
    /\ OtherTablesEmpty

NextCreate ==
    \/ resp = NoResponse /\ CreateDocumentRequest(req)
    \/ resp = NoResponse /\ CreateApplication(req)

SpecCreate == InitCreate /\ [][NextCreate]_vars

(***************************************************************************)
(* Properties of the creation routes.                                      *)
(***************************************************************************)
DocStep == resp'.route = "create_document_request"
AppStep == resp'.route = "create_application"

NewRequests == requests' \ requests
NewApplications == applications' \ applications

\* the request gets as far as the municipality check of create_document_request
ReachedMunicipalityCheck(in) ==
    /\ in.route = "create_document_request"
    /\ in.caller \in UserIds
    /\ in.fault # "user_query"
    /\ in.data.document_type_id.t # "none"
    /\ in.data.municipality_id.t # "none"
    /\ in.data.delivery_method # None
    /\ in.data.purpose # None

\* ... and selects an active document type in the caller's municipality
DocTypeSelected(in) ==
    /\ ReachedMunicipalityCheck(in)
    /\ PyInt(in.data.municipality_id).ok
    /\ Users[in.caller].municipality_id # NoneId
    /\ Users[in.caller].municipality_id = PyInt(in.data.municipality_id).v
    /\ PyInt(in.data.document_type_id).ok
    /\ PyInt(in.data.document_type_id).v \in DocumentTypeIds
    /\ DocumentTypes[PyInt(in.data.document_type_id).v].is_active

SelectedType(in) == DocumentTypes[PyInt(in.data.document_type_id).v]

\* the request selects an active program open to the caller's municipality
ProgramSelected(in) ==
    /\ in.route = "create_application"
    /\ in.caller \in UserIds
    /\ in.fault # "user_query"
    /\ PyInt(in.data.program_id).ok
    /\ PyInt(in.data.program_id).v \in ProgramIds
    /\ programs[PyInt(in.data.program_id).v].is_active
    /\ programs[PyInt(in.data.program_id).v].municipality_id
          \in {NoneId, Users[in.caller].municipality_id}

SelectedProgram(in) == programs[PyInt(in.data.program_id).v]

\* k: the number of non-blank entries of a requirements column, at most five
RequiredAttachments(column) ==
    IF column.is_list THEN Min(Len(SelectNonBlank(column.items)), 5) ELSE 0

\* the named requirement files of a request (none in a JSON request)
NamedRequirementFiles(in) ==
    IF in.is_multipart
    THEN Len(NamedFiles(IF in.files.requirement_files # <<>>
                        THEN in.files.requirement_files
                        ELSE in.files.requirements_alt))
    ELSE 0

\* C1: create_document_request creates a row only when the caller's
\* municipality_id is set and equals int(municipality_id) of the request;
\* otherwise it answers 403 (400 when int() raises) and creates no row, so
\* every created row carries its owner's municipality_id.
C1_MunicipalityScoping ==
    [][DocStep =>
        IF ReachedMunicipalityCheck(req')
        THEN LET m == PyInt(req'.data.municipality_id)
                 own == Users[req'.caller].municipality_id
             IN  /\ ~m.ok => resp'.status = 400 /\ NewRequests = {}
                 /\ (m.ok /\ (own = NoneId \/ own # m.v))
                      => resp'.status = 403 /\ NewRequests = {}
                 /\ \A r \in NewRequests :
                      /\ r.user_id = req'.caller
                      /\ m.ok /\ own # NoneId /\ own = m.v
                      /\ r.municipality_id = own
        ELSE NewRequests = {}
      ]_vars

\* a row was created from a municipality_id sent as the string " 2 "
C1_Witness ==
    /\ resp.route = "create_document_request"
    /\ resp.status = 201
    /\ req.data.municipality_id = JStr(<<" ", "2", " ">>)
    /\ \E r \in requests : r.id = resp.id /\ r.user_id = 2 /\ r.municipality_id = 2

\* C2: with k = min(non-blank requirement entries, 5) > 0 and fewer than k
\* named requirement files, create_document_request and create_application
\* answer 400 'Missing required attachments' and create no row; every 201
\* creation carries at least k requirement files.
C2_RequiredAttachments ==
    [][/\ DocStep /\ DocTypeSelected(req') =>
            LET k == RequiredAttachments(SelectedType(req').requirements)
                n == NamedRequirementFiles(req')
            IN  /\ (k > 0 /\ n < k) =>
                      /\ resp'.status = 400
                      /\ resp'.error = "Missing required attachments"
                      /\ NewRequests = {}
                /\ resp'.status = 201 =>
                      /\ n >= k
                      /\ \A r \in NewRequests : Len(r.supporting_documents) >= k
                /\ NewRequests # {} => n >= k
       /\ AppStep /\ ProgramSelected(req') =>
            LET k == RequiredAttachments(SelectedProgram(req').required_documents)
                n == NamedRequirementFiles(req')
            IN  /\ (k > 0 /\ n < k) =>
                      /\ resp'.status = 400
                      /\ resp'.error = "Missing required attachments"
                      /\ NewApplications = {}
                /\ resp'.status = 201 =>
                      /\ n >= k
                      /\ \A a \in NewApplications : Len(a.supporting_documents) >= k
                /\ NewApplications # {} => n >= k
      ]_vars

\* a type with six non-blank requirements was requested with five files
C2_Witness ==
    /\ resp.route = "create_document_request"
    /\ resp.status = 201
    /\ PyInt(req.data.document_type_id).v = 4
    /\ NamedRequirementFiles(req) = 5
    /\ \E r \in requests : r.id = resp.id /\ Len(r.supporting_documents) = 5

\* C3: delivery_method 'digital' (in any letter case) is accepted only for a
\* type that supports digital delivery and has no fee; otherwise the route
\* answers 400 and creates no row, so every created digital row references
\* a free type that supports digital delivery.
C3_DigitalDelivery ==
    [][DocStep =>
        /\ ( /\ DocTypeSelected(req')
             /\ ~( /\ RequiredAttachments(SelectedType(req').requirements) > 0
                   /\ NamedRequirementFiles(req')
                        < RequiredAttachments(SelectedType(req').requirements))
             /\ Lower(req'.data.delivery_method) = "digital"
             /\ ~(SelectedType(req').supports_digital /\ SelectedType(req').fee <= 0) )
           => resp'.status = 400 /\ NewRequests = {}
        /\ \A r \in NewRequests :
             r.delivery_method = "digital" =>
                /\ DocumentTypes[r.document_type_id].supports_digital
                /\ DocumentTypes[r.document_type_id].fee <= 0
      ]_vars

\* a digital row was created from the delivery_method 'DIGITAL'
C3_Witness ==
    /\ resp.route = "create_document_request"
    /\ resp.status = 201
    /\ req.data.delivery_method = "DIGITAL"
    /\ \E r \in requests : r.id = resp.id /\ r.delivery_method = "digital"

(***************************************************************************)
(* The uploads handler, driven with every short path.                      *)
(***************************************************************************)
PathTokens == {"/", "\\", "..", "marketplace", "verification", "private", "file.jpg"}

RECURSIVE PathsOfLen(_)
PathsOfLen(n) ==
    IF n = 0 THEN {<<>>}
    ELSE {Append(f, t) : f \in PathsOfLen(n - 1), t \in PathTokens}

Filenames ==
    UNION {PathsOfLen(n) : n \in 1..MaxPathLen}
    \cup {<<"verification", "/", "user_1", "/", "file.jpg">>,
          <<"marketplace", "/", "..", "/", "private", "/", "x">>}

UploadRequests ==
    {[route |-> "serve_uploaded_file", method |-> method, filename |-> filename,
      exists |-> exists] :
        method \in {"GET", "OPTIONS"}, filename \in Filenames, exists \in BOOLEAN}

InitUploads ==
    /\ EmptyDatabase
    /\ now = 0
    /\ req \in UploadRequests
    /\ resp = NoResponse
    /\ OtherTablesEmpty

NextUploads == resp = NoResponse /\ ServeUploadedFile(req)

SpecUploads == InitUploads /\ [][NextUploads]_vars

\* the normalized path starts with "<directory>/"
StartsWithDirectory(normalized, directory) ==
    Len(normalized) >= 2 /\ normalized[1] = directory /\ normalized[2] = "/"

AllowlistedDirectories ==
    {"marketplace", "announcements", "profiles", "verification", "document_requests",
     "benefits", "issues", "generated_docs", "exports"}

ServedGet == resp.route = "serve_uploaded_file" /\ req.method = "GET"

\* C4: a GET whose normalized filename starts with none of the allowlisted
\* prefixes is answered 403 {'error': 'Forbidden'} and no file is read or sent.
C4_AllowlistForbids ==
    ( /\ ServedGet
      /\ \A d \in AllowlistedDirectories :
            ~StartsWithDirectory(Normalize(req.filename), d) )
    => (resp.status = 403 /\ resp.error = "Forbidden" /\ ~resp.sent)

\* a path outside the allowlist, written with a leading backslash, was refused
C4_Witness ==
    /\ ServedGet
    /\ req.filename = <<"\\", "private", "/">>
    /\ resp.status = 403

\* C5: every GET /uploads/verification/<user>/<file> is refused with 403,
\* whether or not the file exists.
C5_VerificationRefused ==
    (ServedGet /\ StartsWithDirectory(Normalize(req.filename), "verification"))
    => resp.status = 403

(***************************************************************************)
(* Every route of routes/documents.py and routes/benefits.py, answered     *)
(* once from a database that holds rows in any status, with and without a  *)
(* database or file error striking the handler.                            *)
(***************************************************************************)
Statuses == {"pending", "approved", "rejected", "ready", "completed"}

StoredMethods == {"pickup", "digital", "physical", "courier"}

\* a document request as the administrator's routes may have left it
StoredRequest(id, user_id, method, status, file) ==
    [id |-> id,
     request_number |-> <<"REQ", user_id, Cardinality(UserIds), id>>,
     user_id |-> user_id,
     document_type_id |-> 5,
     municipality_id |-> Users[user_id].municipality_id,
     barangay_id |-> IF method = "pickup" THEN NoneId ELSE Users[user_id].barangay_id,
     delivery_method |-> method,
     delivery_address |->
        IF method = "pickup"
        THEN <<"Municipal Hall", MunicipalityName(Users[user_id].municipality_id)>>
        ELSE <<>>,
     supporting_documents |-> <<>>,
     status |-> status,
     document_file |-> file,
     qr_code |-> IF method \in {"pickup", "physical"} /\ status \in {"approved", "ready"}
                 THEN <<"qr", id>> ELSE NoPath]

StoredRequests ==
    {StoredRequest(1, u, m, s, f) :
        u \in Callers, m \in StoredMethods, s \in Statuses,
        f \in {NoPath, <<"generated_docs", 1>>}}

RequestTables ==
    {{}} \cup {{r} : r \in StoredRequests}
         \cup {{r, StoredRequest(2, 2, "digital", "ready", <<"generated_docs", 2>>)} :
                  r \in {x \in StoredRequests : x.user_id = 1}}

StoredApplication(id, user_id, program_id, status) ==
    [id |-> id,
     application_number |-> <<"APP", Users[user_id].municipality_id, user_id, id>>,
     user_id |-> user_id,
     program_id |-> program_id,
     supporting_documents |-> <<>>,
     status |-> status]

ApplicationTables ==
    {{}} \cup {{StoredApplication(1, u, p, s)} :
                  u \in Callers, p \in {1, 2}, s \in {"pending", "approved", "rejected"}}

ReadFaults == {"none", "query"}
WriteFaults == {"none", "query", "validation", "save_file", "commit"}
RouteCallers == {NoneId, 1, 2}
RowIds == {1, 2, 3}

DocumentRouteRequests ==
    {[route |-> "list_document_types", fault |-> f] : f \in ReadFaults}
    \cup {[route |-> "get_my_requests", caller |-> u, fault |-> f] :
             u \in RouteCallers, f \in ReadFaults}
    \cup {[route |-> r, caller |-> u, id |-> id, fault |-> f] :
             r \in {"get_request_detail", "get_claim_ticket"},
             u \in RouteCallers, id \in RowIds, f \in ReadFaults}
    \cup {[route |-> "public_verify_document", request_number |-> n, fault |-> f] :
             n \in {<<"REQ", 1, 4, 1>>, <<"REQ", 2, 4, 1>>, <<"REQ", 2, 4, 2>>,
                     <<"REQ", 9, 9, 9>>},
             f \in ReadFaults}
    \cup {[route |-> "upload_request_files", caller |-> u, id |-> id, files |-> fs,
            fault |-> f] :
             u \in RouteCallers, id \in RowIds, fs \in {<<>>, <<"id.png", "bill.png">>},
             f \in WriteFaults}
    \cup {in \in FaultedCreations : in.route = "create_document_request"}

BenefitRouteRequests ==
    {[route |-> "list_programs", municipality_id |-> m, fault |-> f] :
        m \in {NoneId, 1, 2}, f \in {"none", "query", "commit"}}
    \cup {[route |-> "get_program", id |-> id, fault |-> f] :
             id \in 1..5, f \in ReadFaults}
    \cup {[route |-> "my_applications", caller |-> u, fault |-> f] :
             u \in RouteCallers, f \in ReadFaults}
    \cup {[route |-> "upload_application_doc", caller |-> u, id |-> id, files |-> fs,
            fault |-> f] :
             u \in RouteCallers, id \in RowIds, fs \in {<<>>, <<"id.png">>},
             f \in WriteFaults}
    \cup {in \in FaultedCreations : in.route = "create_application"}

InitRoutes ==
    /\ \/ /\ requests \in RequestTables
          /\ applications = {}
          /\ req \in DocumentRouteRequests
       \/ /\ requests = {}
          /\ applications \in ApplicationTables
          /\ req \in BenefitRouteRequests
    /\ nextRequestId = Cardinality(requests) + 1
    /\ nextApplicationId = Cardinality(applications) + 1
    /\ programs = InitialPrograms
    /\ now \in 0..MaxNow
    /\ pending = FALSE
    /\ resp = NoResponse
    /\ OtherTablesEmpty

Unanswered == resp = NoResponse

NextRoutes ==
    \/ Unanswered /\ ListDocumentTypes(req)
    \/ Unanswered /\ CreateDocumentRequest(req)
    \/ Unanswered /\ GetMyRequests(req)
    \/ Unanswered /\ GetRequestDetail(req)
    \/ Unanswered /\ GetClaimTicket(req)
    \/ Unanswered /\ PublicVerifyDocument(req)
    \/ Unanswered /\ UploadRequestFiles(req)
    \/ Unanswered /\ ListPrograms(req)
    \/ Unanswered /\ GetProgram(req)
    \/ Unanswered /\ CreateApplication(req)
    \/ Unanswered /\ MyApplications(req)
    \/ Unanswered /\ UploadApplicationDoc(req)

SpecRoutes == InitRoutes /\ [][NextRoutes]_vars

\* C6: whenever a handler of routes/documents.py or routes/benefits.py fails
\* with an unexpected exception (a 5xx answer), it has rolled the session
\* back, its body holds an error, and no write of the failed request remains
\* pending in the session or committed in the tables.
C6_UniformRollback ==
    [][resp'.status >= 500 =>
          /\ resp'.rolled_back
          /\ resp'.error # ""
          /\ ~pending'
          /\ requests' = requests
          /\ applications' = applications
          /\ programs' = programs]_vars

\* C7: every row a resident route creates has status 'pending', and no route
\* of routes/documents.py or routes/benefits.py changes the status of a row
\* that exists already.
C7_ResidentsOnlyWritePending ==
    [][/\ \A r \in requests' :
             IF r.id \in RequestIds THEN r.status = GetRequest(r.id).status
             ELSE r.status = "pending"
       /\ \A a \in applications' :
             IF a.id \in ApplicationIds THEN a.status = GetApplication(a.id).status
             ELSE a.status = "pending"]_vars

\* an upload accepted on a request the administrator had approved
C7_Witness ==
    /\ resp.route = "upload_request_files"
    /\ resp.status = 200
    /\ \E r \in requests :
          r.id = resp.id /\ r.status = "approved" /\ r.supporting_documents # <<>>

LifecycleEdges ==
    {<<"pending", "approved">>, <<"pending", "rejected">>,
     <<"approved", "ready">>, <<"ready", "completed">>}

\* C8: the status of a document request moves only along pending -> approved
\* or rejected, approved -> ready, ready -> completed: no step returns a
\* request to 'pending', none leaves 'rejected' or 'completed', and 'ready'
\* is entered from 'approved' only.
C8_StatusLifecycle ==
    [][\A r \in requests : \A s \in requests' :
          s.id = r.id =>
             \/ s.status = r.status
             \/ <<r.status, s.status>> \in LifecycleEdges]_vars

\* a request that went the whole way, with an attachment uploaded on the way
C8_Witness ==
    \E r \in requests : r.status = "completed" /\ r.supporting_documents # <<>>

VerifyReasons ==
    {"not_found", "not_digital", "no_file"} \cup {"status_" \o s : s \in Statuses}

Verifiable(r) ==
    /\ r.delivery_method = "digital"
    /\ r.document_file # NoPath
    /\ r.status \in {"ready", "completed"}

\* C9: public_verify_document answers valid only when the request number
\* names a digital request with a document file and status 'ready' or
\* 'completed'; otherwise, unless the lookup itself raises, it answers 200,
\* not valid, with one of the reasons; and it leaves every row as it was.
C9_VerifyOnlyIssuedDigital ==
    [][req'.route = "public_verify_document" =>
          LET matches == {r \in requests : r.request_number = req'.request_number} IN
          /\ requests' = requests
          /\ resp'.valid => \E r \in matches : Verifiable(r)
          /\ req'.fault = "none" =>
                /\ resp'.status = 200
                /\ (\A r \in matches : ~Verifiable(r)) =>
                      ~resp'.valid /\ resp'.reason \in VerifyReasons]_vars

\* a ready digital request verified, its row untouched
C9_Witness ==
    /\ resp.route = "public_verify_document"
    /\ resp.valid
    /\ \E r \in requests : r.id = resp.id /\ Verifiable(r) /\ r.status = "ready"

\* C10 as stated: a claim ticket is answered only for a pickup request of
\* the caller that has been approved.
C10_TicketOnlyWhenApproved ==
    (resp.route = "get_claim_ticket" /\ resp.status = 200) =>
       \E r \in requests :
          /\ r.id = req.id
          /\ r.user_id = req.caller
          /\ r.delivery_method \in {"pickup", "physical"}
          /\ r.status \in {"approved", "ready", "completed"}

\* C10: get_claim_ticket answers 200 only for a request of the caller whose
\* delivery method is 'pickup' or 'physical', whatever its status; a
\* request of the caller with another delivery method gets 400 'Not a
\* pickup request'; a stored ticket is reported only if the row holds one.
C10_TicketForOwnPickup ==
    resp.route = "get_claim_ticket" =>
       /\ resp.status = 200 =>
             \E r \in requests :
                /\ r.id = req.id
                /\ r.user_id = req.caller
                /\ r.delivery_method \in {"pickup", "physical"}
                /\ resp.ticket = (r.qr_code # NoPath)
       /\ \A r \in requests :
             (r.id = req.id /\ r.user_id = req.caller
                /\ r.delivery_method \notin {"pickup", "physical"}) =>
                (resp.status = 400 /\ resp.error = "Not a pickup request")

\* the owner of a pickup request still pending is answered 200
C10_Witness ==
    /\ resp.route = "get_claim_ticket"
    /\ resp.status = 200
    /\ \E r \in requests :
          r.id = req.id /\ r.user_id = req.caller /\ r.status = "pending"

(***************************************************************************)
(* Owner isolation of document requests.                                   *)
(***************************************************************************)
OwnerRoutes == {"get_request_detail", "get_claim_ticket", "upload_request_files"}

OwnRows(table, caller) == {r \in table : r.user_id = caller}

OthersRows(table, caller) == {r \in table : r.user_id # caller}

\* what a route answers to the request over a document_requests table
AnswerOver(table, in) ==
    CASE in.route = "get_my_requests" -> MyRequestsAnswer(table, in)
      [] in.route = "get_request_detail" -> RequestDetailAnswer(table, in)
      [] in.route = "get_claim_ticket" -> ClaimTicketAnswer(table, in)
      [] in.route = "upload_request_files" -> UploadRequestFilesAnswer(table, in)

\* C11: get_request_detail, get_claim_ticket and upload_request_files answer
\* a request of someone else as they answer an id that does not exist (404
\* 'Request not found', no field of the row) and leave it as it was; and the
\* answer of these routes and of get_my_requests is the same over every
\* table that holds the same rows of the caller.
C11_OwnerIsolation ==
    [][req'.route \in OwnerRoutes \cup {"get_my_requests"} =>
          LET in == req'
              caller == req'.caller
          IN
          /\ OthersRows(requests', caller) = OthersRows(requests, caller)
          /\ resp'.rows \subseteq OwnRows(requests', caller)
          /\ (in.route \in OwnerRoutes /\ ~Owned(requests, in.id, caller)) =>
                /\ requests' = requests
                /\ resp' = AnswerOver({r \in requests : r.id # in.id}, in)
                /\ (caller # NoneId /\ in.fault = "none") =>
                      resp' = Response(in.route, 404, "Request not found")
          /\ \A table \in RequestTables \cup {OwnRows(requests, caller)} :
                OwnRows(table, caller) = OwnRows(requests, caller) =>
                   resp' = AnswerOver(table, in)]_vars

\* the detail of another resident's request was asked for and refused
C11_Witness ==
    /\ resp.route = "get_request_detail"
    /\ resp = Response("get_request_detail", 404, "Request not found")
    /\ \E r \in requests : r.id = req.id /\ r.user_id # req.caller /\ req.caller # NoneId

(***************************************************************************)
(* Accounts: the users table as the account routes (routes/auth.py) and    *)
(* the administrator's user routes see it.                                 *)
(***************************************************************************)
\* bcrypt.hashpw(password, salt)
HashPw(password) == <<"bcrypt", password>>

\* a check that accepts every password
CheckPwAnything(password, password_hash) == TRUE

\* bcrypt.checkpw(password, password_hash)
CheckPw(password, password_hash) == password_hash = HashPw(password)

\* a users row
Account(id, username, password, role, municipality_id, is_active) ==
    [id |-> id, username |-> username, password_hash |-> HashPw(password),
     role |-> role, municipality_id |-> municipality_id, is_active |-> is_active,
     email_verified |-> TRUE, admin_verified |-> TRUE,
     valid_id_front |-> <<"verification", id, "front.jpg">>,
     valid_id_back |-> <<"verification", id, "back.jpg">>,
     selfie_with_id |-> <<"verification", id, "selfie.jpg">>,
     proof_of_residency |-> <<"verification", id, "proof.jpg">>]

AccountIds == {a.id : a \in accounts}

\* db.session.get(User, user_id)
GetAccount(id) == CHOOSE a \in accounts : a.id = id

\* the users table with one row replaced
WithAccount(old, new) == (accounts \ {old}) \cup {new}

(***************************************************************************)
(* models/password_reset.py and the reset routes of routes/auth.py.        *)
(***************************************************************************)
MaxTokens == 2

\* used_at of a token not used yet (the column is nullable)
NoTime == -1

\* minutes a reset token lives, in ticks of the clock
TokenLifetime == 1

\* hashlib.sha256(token).hexdigest()
TokenHash(token) == <<"sha256", token>>

\* a validity test that forgets the expiry
IsValidIgnoringExpiry(t) == t.used_at = NoTime

\* PasswordResetToken.is_valid
IsValid(t) == t.used_at = NoTime /\ t.expires_at >= now

\* a mark_used that stamps the token again
MarkUsedAgain(t) == [t EXCEPT !.used_at = now]

\* PasswordResetToken.mark_used: the row after the call
MarkUsed(t) == IF t.used_at = NoTime THEN [t EXCEPT !.used_at = now] ELSE t

ResetFrame ==
    /\ pending' = FALSE
    /\ UNCHANGED <<now, transfers, audit_logs>>
    /\ DocsUnchanged
    /\ BenefitsUnchanged
    /\ MarketUnchanged
    /\ CallsUnchanged
    /\ SeedsUnchanged

\* POST /api/auth/forgot-password: a token for the account the details name
ForgotPassword(in) ==
    LET route == "forgot_password"
        matches == {a \in accounts : a.username = in.username}
    IN
    /\ in.route = route
    /\ Cardinality(tokens) < MaxTokens
    /\ req' = in
    /\ resp' = Response(route, 200, "")
    /\ ResetFrame
    /\ UNCHANGED accounts
    /\ IF matches = {} THEN UNCHANGED tokens
       ELSE LET a == CHOOSE x \in matches : TRUE
                id == Cardinality(tokens) + 1
            IN  tokens' = tokens \cup
                   {[id |-> id, user_id |-> a.id,
                     token_hash |-> TokenHash(<<"token", id>>),
                     created_at |-> now, expires_at |-> now + TokenLifetime,
                     used_at |-> NoTime]}

\* POST /api/auth/forgot-password/verify
VerifyResetToken(in) ==
    LET route == "verify_reset_token"
        matches == {t \in tokens : t.token_hash = TokenHash(in.token)}
    IN
    /\ in.route = route
    /\ req' = in
    /\ resp' = IF \E t \in matches : IsValid(t)
               THEN [Response(route, 200, "") EXCEPT !.valid = TRUE]
               ELSE Response(route, 400, "Invalid or expired token")
    /\ ResetFrame
    /\ UNCHANGED <<accounts, tokens>>

\* POST /api/auth/reset-password
ResetPassword(in) ==
    LET route == "reset_password"
        matches == {t \in tokens : t.token_hash = TokenHash(in.token)}
        Refuse(error) == resp' = Response(route, 400, error) /\ UNCHANGED <<accounts, tokens>>
    IN
    /\ in.route = route
    /\ req' = in
    /\ ResetFrame
    /\ IF in.new_password # in.confirm_password THEN Refuse("Passwords do not match")
       ELSE IF matches = {} THEN Refuse("Invalid or expired token")
       ELSE LET t == CHOOSE x \in matches : TRUE IN
            IF ~IsValid(t) THEN Refuse("Invalid or expired token")
            ELSE LET user == GetAccount(t.user_id) IN
                 /\ accounts' = WithAccount(user,
                                   [user EXCEPT !.password_hash = HashPw(in.new_password)])
                 /\ tokens' = (tokens \ {t}) \cup {MarkUsed(t)}
                 /\ resp' = [Response(route, 200, "") EXCEPT !.id = user.id]

\* token.mark_used() called on a stored token, then committed
MarkTokenUsed(t) ==
    /\ req' = [route |-> "mark_used", id |-> t.id]
    /\ resp' = [Response("mark_used", 200, "") EXCEPT !.id = t.id]
    /\ tokens' = (tokens \ {t}) \cup {MarkUsed(t)}
    /\ ResetFrame
    /\ UNCHANGED accounts

(***************************************************************************)
(* The life of password reset tokens: a resident asks for tokens, checks   *)
(* and spends them, while the clock advances.                              *)
(***************************************************************************)
ResetTokens == {<<"token", 1>>, <<"token", 2>>, <<"token", 9>>}

NewPasswords == {"NewPass123", "AnotherPass123"}

InitReset ==
    /\ EmptyDatabase
    /\ now = 0
    /\ req = NoRequest
    /\ resp = NoResponse
    /\ accounts = {Account(1, "resident1", "OldPass1", "resident", 1, TRUE)}
    /\ tokens = {}
    /\ transfers = {}
    /\ audit_logs = {}
    /\ items = {}
    /\ transactions = {}
    /\ NoCalls
    /\ municipalities = {}
    /\ barangays = {}
    /\ render_db = NoSeededTables

NextReset ==
    \/ \E u \in {"resident1", "wronguser"} :
          ForgotPassword([route |-> "forgot_password", username |-> u])
    \/ \E k \in ResetTokens :
          VerifyResetToken([route |-> "verify_reset_token", token |-> k])
    \/ \E k \in ResetTokens, p \in NewPasswords, c \in NewPasswords :
          ResetPassword([route |-> "reset_password", token |-> k,
                         new_password |-> p, confirm_password |-> c])
    \/ \E t \in tokens : MarkTokenUsed(t)
    \/ Tick

SpecReset == InitReset /\ [][NextReset]_vars

\* the stored token a reset-password request names, if any
NamedTokens(in) == {t \in tokens : t.token_hash = TokenHash(in.token)}

\* the step answers a reset-password request (the clock does not move)
ResetStep == req'.route = "reset_password" /\ resp'.route = "reset_password" /\ now' = now

PasswordsUnchanged ==
    \A a \in accounts : \A b \in accounts' : b.id = a.id => b.password_hash = a.password_hash

\* C12: a successful reset-password stamps used_at on its token; a used_at
\* that is set is never cleared or changed by any step; a used token is not
\* valid, and a reset-password that names it is answered 400 and leaves
\* every password as it was.
C12_TokenUsedOnce ==
    [][/\ \A t \in tokens : t.used_at # NoTime =>
             /\ \E u \in tokens' : u.id = t.id /\ u.used_at = t.used_at
             /\ ~IsValid(t)
       /\ ResetStep =>
             /\ resp'.status = 200 =>
                   \E t \in NamedTokens(req') : \E u \in tokens' :
                      t.used_at = NoTime /\ u.id = t.id /\ u.used_at = now
             /\ (NamedTokens(req') # {} /\ \A t \in NamedTokens(req') : t.used_at # NoTime) =>
                   (resp'.status = 400 /\ PasswordsUnchanged)]_vars

\* a token spent at one tick is refused at a later one, the password kept
C12_Witness ==
    /\ resp.route = "reset_password"
    /\ resp.status = 400
    /\ req.new_password = req.confirm_password
    /\ \E t \in tokens :
          /\ t.token_hash = TokenHash(req.token)
          /\ t.used_at # NoTime /\ t.used_at < now /\ t.expires_at >= now
    /\ \E a \in accounts : a.password_hash = HashPw("NewPass123")

\* C13: a token is valid exactly when used_at is unset and expires_at >= now
\* (so a token expiring now is valid); no step makes an invalid token valid;
\* and reset-password with a token whose expires_at is past is answered 400
\* and leaves every password as it was.
C13_ValidUntilExpiry ==
    [][/\ \A t \in tokens :
             /\ IsValid(t) <=> (t.used_at = NoTime /\ ~(t.expires_at < now))
             /\ (t.used_at = NoTime /\ t.expires_at = now) => IsValid(t)
             /\ ~IsValid(t) =>
                   \A u \in tokens' :
                      u.id = t.id => ~(u.used_at = NoTime /\ u.expires_at >= now')
       /\ (ResetStep
             /\ NamedTokens(req') # {}
             /\ \A t \in NamedTokens(req') : t.expires_at < now) =>
             (resp'.status = 400 /\ PasswordsUnchanged)]_vars

\* a token never used, refused once its expiry has passed
C13_Witness ==
    /\ resp.route = "reset_password"
    /\ resp.status = 400
    /\ req.new_password = req.confirm_password
    /\ \E t \in tokens :
          /\ t.token_hash = TokenHash(req.token)
          /\ t.used_at = NoTime /\ t.expires_at < now
    /\ \A a \in accounts : a.password_hash = HashPw("OldPass1")

(***************************************************************************)
(* POST /api/auth/login (routes/auth.py).                                  *)
(***************************************************************************)
\* create_access_token(identity=str(user.id))
AccessToken(user) == <<"jwt", user.id>>

\* the users a login name matches, letter case aside
FindByUsername(username) == {a \in accounts : Lower(a.username) = Lower(username)}

Login(in) ==
    LET route == "login"
        matches == FindByUsername(in.username)
        Wrong == Response(route, 400, "Incorrect password")
        Blocked == Response(route, 403, "Account is deactivated")
    IN
    /\ in.route = route
    /\ req' = in
    /\ pending' = FALSE
    /\ UNCHANGED now
    /\ DocsUnchanged
    /\ BenefitsUnchanged
    /\ OtherTablesUnchanged
    /\ IF matches = {} THEN resp' = Response(route, 404, "User not found")
       ELSE \E user \in matches :
              LET right == CheckPw(in.password, user.password_hash) IN
              \* which of the two checks comes first is not fixed here
              \/ ~right /\ resp' = Wrong
              \/ ~user.is_active /\ resp' = Blocked
              \/ /\ right /\ user.is_active
                 /\ resp' = [Response(route, 200, "") EXCEPT
                                !.id = user.id, !.access_token = AccessToken(user),
                                !.username = user.username]

LoginNames == {"resident1", "RESIDENT1", "Resident1", "resident2", "RESIDENT2", "nobody"}

LoginPasswords == {"SecurePass1", "WrongPass1", "securepass1"}

\* the users table: resident1, alone or with a second resident
LoginTables ==
    {{Account(1, "resident1", "SecurePass1", "resident", 1, active)} :
        active \in BOOLEAN}
    \cup {{Account(1, "resident1", "SecurePass1", "resident", 1, TRUE),
           Account(2, "Resident2", "SecurePass1", "resident", 1, active)} :
             active \in BOOLEAN}

InitLogin ==
    /\ EmptyDatabase
    /\ now = 0
    /\ req \in {[route |-> "login", username |-> u, password |-> p] :
                   u \in LoginNames, p \in LoginPasswords}
    /\ resp = NoResponse
    /\ accounts \in LoginTables
    /\ tokens = {}
    /\ transfers = {}
    /\ audit_logs = {}
    /\ items = {}
    /\ transactions = {}
    /\ NoCalls
    /\ municipalities = {}
    /\ barangays = {}
    /\ render_db = NoSeededTables

NextLogin == resp = NoResponse /\ Login(req)

SpecLogin == InitLogin /\ [][NextLogin]_vars

\* the spellings of one username that differ in letter case only
CaseVariants ==
    {{"resident1", "RESIDENT1", "Resident1"}, {"resident2", "RESIDENT2", "Resident2"}}

SameUsername(x, y) == x = y \/ \E spellings \in CaseVariants : {x, y} \subseteq spellings

\* the accounts a login request names, letter case aside
NamedAccounts == {a \in accounts : SameUsername(a.username, req.username)}

\* C14: login returns an access token only when the password matches the
\* stored hash and the account is active; a wrong password gets 400
\* 'Incorrect password' or, on an inactive account, 403; an inactive
\* account gets 403 (or 400 when the password is wrong too); neither gets
\* a token.
C14_LoginNeedsPasswordAndActive ==
    resp.route = "login" =>
       /\ (resp.status = 200 \/ resp.access_token # NoPath) =>
             \E a \in accounts :
                /\ a.id = resp.id
                /\ a.password_hash = HashPw(req.password)
                /\ a.is_active
       /\ \A a \in NamedAccounts :
             /\ a.password_hash # HashPw(req.password) =>
                   /\ resp.access_token = NoPath
                   /\ a.is_active => (resp.status = 400 /\ resp.error = "Incorrect password")
             /\ ~a.is_active =>
                   /\ resp.access_token = NoPath
                   /\ a.password_hash = HashPw(req.password) =>
                         (resp.status = 403 /\ resp.error = "Account is deactivated")

\* the right password on a deactivated account was refused
C14_Witness ==
    /\ resp.route = "login"
    /\ resp.status = 403
    /\ resp.access_token = NoPath
    /\ \E a \in NamedAccounts : ~a.is_active /\ a.password_hash = HashPw(req.password)

\* C15: for an active user and the right password, login answers 200 with
\* an access token for every letter-case variant of the username, and the
\* user returned carries the username as stored.
C15_UsernameCaseInsensitive ==
    resp.route = "login" =>
       \A a \in NamedAccounts :
          (a.is_active /\ a.password_hash = HashPw(req.password)) =>
             /\ resp.status = 200
             /\ resp.access_token # NoPath
             /\ resp.id = a.id
             /\ resp.username = a.username

\* RESIDENT1 logged in as resident1
C15_Witness ==
    /\ resp.route = "login"
    /\ req.username = "RESIDENT1"
    /\ resp.status = 200
    /\ resp.username = "resident1"

(***************************************************************************)
(* POST /api/marketplace/transactions (routes/marketplace.py).             *)
(***************************************************************************)
MaxTransactions == 2

\* the identity taken as the token carries it: a string is no user id
JwtIdentityAsWritten(identity) ==
    IF identity.t = "int" THEN PyInt(identity) ELSE PyOk(NoneId)

\* utils.jwt_identity_as_int: the identity of the token as an integer
JwtIdentityAsInt(identity) == PyInt(identity)

ItemIds == {i.id : i \in items}

GetItem(id) == CHOOSE i \in items : i.id = id

CreateTransaction(in) ==
    LET route == "create_transaction"
        user_id == JwtIdentityAsInt(in.identity)
        Refuse(status, error) == resp' = Response(route, status, error) /\ UNCHANGED transactions
    IN
    /\ in.route = route
    /\ Cardinality(transactions) < MaxTransactions
    /\ req' = in
    /\ pending' = FALSE
    /\ UNCHANGED <<now, items>>
    /\ CallsUnchanged
    /\ DocsUnchanged
    /\ BenefitsUnchanged
    /\ AccountsUnchanged
    /\ SeedsUnchanged
    /\ IF ~user_id.ok THEN Refuse(401, "Invalid session")
       ELSE IF in.item_id \notin ItemIds THEN Refuse(404, "Item not found")
       ELSE LET item == GetItem(in.item_id) IN
            IF item.user_id = user_id.v
            THEN Refuse(400, "You cannot transact with your own item")
            ELSE IF item.status # "available" THEN Refuse(400, "Item is not available")
            ELSE LET id == Cardinality(transactions) + 1 IN
                 /\ transactions' = transactions \cup
                      {[id |-> id, item_id |-> item.id, buyer_id |-> user_id.v,
                        seller_id |-> item.user_id, status |-> "pending"]}
                 /\ resp' = [Response(route, 201, "") EXCEPT !.id = id]

\* the identity of a token: create_access_token(identity=str(user_id)), or an integer
Identities ==
    {JStr(<<"1">>), JInt(<<"1">>), JStr(<<"2">>), JInt(<<"2">>), JStr(<<"3">>), JNone}

InitMarket ==
    /\ EmptyDatabase
    /\ now = 0
    /\ req = NoRequest
    /\ resp = NoResponse
    /\ accounts = {Account(1, "seller", "PassWord1", "resident", 1, TRUE),
                   Account(2, "buyer", "PassWord1", "resident", 1, TRUE),
                   Account(3, "other", "PassWord1", "resident", 1, TRUE)}
    /\ tokens = {}
    /\ transfers = {}
    /\ audit_logs = {}
    /\ items = {[id |-> 1, user_id |-> 1, status |-> "available"],
                [id |-> 2, user_id |-> 2, status |-> "available"],
                [id |-> 3, user_id |-> 1, status |-> "sold"]}
    /\ transactions = {}
    /\ NoCalls
    /\ municipalities = {}
    /\ barangays = {}
    /\ render_db = NoSeededTables

NextMarket ==
    \E identity \in Identities, item_id \in 1..4 :
        CreateTransaction([route |-> "create_transaction", identity |-> identity,
                           item_id |-> item_id])

SpecMarket == InitMarket /\ [][NextMarket]_vars

\* the user a token identity stands for, whether written as a string or an integer
IdentityNames(identity, user_id) ==
    \/ identity \in {JStr(<<"1">>), JInt(<<"1">>)} /\ user_id = 1
    \/ identity \in {JStr(<<"2">>), JInt(<<"2">>)} /\ user_id = 2
    \/ identity = JStr(<<"3">>) /\ user_id = 3

\* C16: a transaction request by the owner of the item, whether the token
\* carries the identity as a string or as an integer, is answered 400 'You
\* cannot transact with your own item' and creates no row; no stored
\* transaction has the owner of its item as buyer.
C16_NoSelfTransaction ==
    [][/\ (req'.route = "create_transaction" /\ req'.item_id \in ItemIds
             /\ IdentityNames(req'.identity, GetItem(req'.item_id).user_id)) =>
             /\ resp'.status = 400
             /\ resp'.error = "You cannot transact with your own item"
             /\ transactions' = transactions
       /\ \A t \in transactions' : t.buyer_id # GetItem(t.item_id).user_id]_vars

\* the seller, identified by a string in the token, was refused on an own item
C16_Witness ==
    /\ resp.route = "create_transaction"
    /\ req.identity = JStr(<<"1">>)
    /\ req.item_id = 1
    /\ resp.status = 400
    /\ transactions # {}

(***************************************************************************)
(* POST /api/admin/users/<id>/reject (routes/admin.py).                    *)
(***************************************************************************)
MaxAuditLogs == 2

\* a rejection that leaves the uploaded verification files on the row
RejectedKeepingFiles(user) ==
    [user EXCEPT !.email_verified = FALSE, !.admin_verified = FALSE, !.is_active = FALSE]

\* the resident row after a rejection
Rejected(user) ==
    [user EXCEPT !.email_verified = FALSE, !.admin_verified = FALSE, !.is_active = FALSE,
                 !.valid_id_front = NoPath, !.valid_id_back = NoPath,
                 !.selfie_with_id = NoPath, !.proof_of_residency = NoPath]

\* AuditLog(user_id, municipality_id, entity_type, entity_id, action, notes)
AuditLog(id, admin, entity_id, action, notes) ==
    [id |-> id, user_id |-> admin.id, municipality_id |-> admin.municipality_id,
     entity_type |-> "user", entity_id |-> entity_id, action |-> action, notes |-> notes]

RejectResident(in) ==
    LET route == "reject_resident"
        admin_id == JwtIdentityAsInt(in.identity)
        Refuse(status, error) ==
            /\ resp' = Response(route, status, error)
            /\ UNCHANGED <<accounts, audit_logs>>
        Reject(admin, user) ==
            /\ accounts' = WithAccount(user, Rejected(user))
            /\ audit_logs' = audit_logs \cup
                 {AuditLog(Cardinality(audit_logs) + 1, admin, user.id,
                           "resident_rejected", in.reason)}
            /\ resp' = [Response(route, 200, "") EXCEPT !.id = user.id]
    IN
    /\ in.route = route
    /\ Cardinality(audit_logs) < MaxAuditLogs
    /\ req' = in
    /\ pending' = FALSE
    /\ UNCHANGED <<now, tokens, transfers>>
    /\ DocsUnchanged
    /\ BenefitsUnchanged
    /\ MarketUnchanged
    /\ CallsUnchanged
    /\ SeedsUnchanged
    /\ IF ~admin_id.ok \/ admin_id.v \notin AccountIds THEN Refuse(401, "Invalid session")
       ELSE LET admin == GetAccount(admin_id.v) IN
            IF admin.role # "municipal_admin" THEN Refuse(403, "Admin access required")
            ELSE IF in.user_id \notin AccountIds THEN Refuse(404, "User not found")
            ELSE LET user == GetAccount(in.user_id) IN
                 IF user.role # "resident" THEN Refuse(400, "User is not a resident")
                 ELSE IF user.municipality_id # admin.municipality_id
                      \* whether the route scopes the resident to the admin's
                      \* municipality is not visible: both outcomes
                      THEN Refuse(403, "User is not in your municipality") \/ Reject(admin, user)
                      ELSE Reject(admin, user)

RejectReasons == {"Invalid documents", "Blurry photo"}

InitReject ==
    /\ EmptyDatabase
    /\ now = 0
    /\ req = NoRequest
    /\ resp = NoResponse
    /\ accounts = {Account(1, "admin1", "AdminPass1", "municipal_admin", 1, TRUE),
                   Account(2, "admin2", "AdminPass1", "municipal_admin", 2, TRUE),
                   Account(3, "resident1", "SecurePass1", "resident", 1, TRUE),
                   Account(4, "resident2", "SecurePass1", "resident", 1, TRUE)}
    /\ tokens = {}
    /\ transfers = {}
    /\ audit_logs = {}
    /\ items = {}
    /\ transactions = {}
    /\ NoCalls
    /\ municipalities = {}
    /\ barangays = {}
    /\ render_db = NoSeededTables

NextReject ==
    \E identity \in {JStr(<<"1">>), JStr(<<"2">>), JStr(<<"3">>), JNone},
       user_id \in 1..5, reason \in RejectReasons :
        RejectResident([route |-> "reject_resident", identity |-> identity,
                        user_id |-> user_id, reason |-> reason])

SpecReject == InitReject /\ [][NextReject]_vars

\* C17: a rejection answered 200 leaves the resident with email_verified,
\* admin_verified and is_active false and the four verification files null,
\* and the same step adds one AuditLog row 'resident_rejected' for that
\* resident with the admin's municipality and the reason as notes; a
\* 'resident_rejected' row is never written without that rejection.
C17_RejectResetsAndLogs ==
    [][/\ (resp'.route = "reject_resident" /\ resp'.status = 200
             /\ <<accounts, audit_logs, req, resp>>' # <<accounts, audit_logs, req, resp>>) =>
             /\ \E u \in accounts' :
                   /\ u.id = req'.user_id
                   /\ ~u.email_verified /\ ~u.admin_verified /\ ~u.is_active
                   /\ u.valid_id_front = NoPath /\ u.valid_id_back = NoPath
                   /\ u.selfie_with_id = NoPath /\ u.proof_of_residency = NoPath
             /\ \A u \in accounts' : u.id # req'.user_id => u \in accounts
             /\ \E l \in audit_logs' \ audit_logs :
                   /\ audit_logs' = audit_logs \cup {l}
                   /\ l.action = "resident_rejected"
                   /\ l.entity_id = req'.user_id
                   /\ l.notes = req'.reason
                   /\ \E a \in accounts : /\ JStr(<<ToString(a.id)>>) = req'.identity
                                           /\ l.municipality_id = a.municipality_id
       /\ (audit_logs' # audit_logs) => resp'.route = "reject_resident" /\ resp'.status = 200]_vars

\* a verified resident with uploaded files was rejected by the admin of the municipality
C17_Witness ==
    /\ resp.route = "reject_resident"
    /\ resp.status = 200
    /\ req.identity = JStr(<<"1">>)
    /\ req.user_id = 3
    /\ \E l \in audit_logs : l.entity_id = 3 /\ l.notes = "Invalid documents" /\ l.municipality_id = 1
    /\ \E u \in accounts : u.id = 3 /\ ~u.is_active /\ u.valid_id_front = NoPath

(***************************************************************************)
(* POST /api/auth/transfer (routes/auth.py) and the admin's decision on a  *)
(* transfer request (routes/admin.py).                                     *)
(***************************************************************************)
MaxTransfers == 3

Municipality(id, name, slug, psgc_code) ==
    [id |-> id, name |-> name, slug |-> slug, psgc_code |-> psgc_code, is_active |-> TRUE]

MunicipalityIds == {m.id : m \in municipalities}

\* a check for an active request that finds none
NoActiveTransfer(user_id) == FALSE

\* TransferRequest.query.filter_by(user_id=user_id, status='pending').first()
HasPendingTransfer(user_id) ==
    \E t \in transfers : t.user_id = user_id /\ t.status = "pending"

RequestTransfer(in) ==
    LET route == "request_transfer"
        user_id == JwtIdentityAsInt(in.identity)
        Refuse(status, error) ==
            /\ resp' = Response(route, status, error)
            /\ UNCHANGED transfers
        Create(user) ==
            LET id == Cardinality(transfers) + 1 IN
            /\ transfers' = transfers \cup
                 {[id |-> id, user_id |-> user.id,
                   from_municipality_id |-> user.municipality_id,
                   to_municipality_id |-> in.to_municipality_id,
                   status |-> "pending", notes |-> in.notes]}
            /\ resp' = [Response(route, 201, "") EXCEPT !.id = id]
    IN
    /\ in.route = route
    /\ Cardinality(transfers) < MaxTransfers
    /\ req' = in
    /\ pending' = FALSE
    /\ UNCHANGED <<now, accounts, tokens, audit_logs>>
    /\ DocsUnchanged
    /\ BenefitsUnchanged
    /\ MarketUnchanged
    /\ CallsUnchanged
    /\ SeedsUnchanged
    /\ IF ~user_id.ok \/ user_id.v \notin AccountIds THEN Refuse(401, "Invalid session")
       ELSE LET user == GetAccount(user_id.v) IN
            IF in.to_municipality_id \notin MunicipalityIds
            THEN Refuse(404, "Municipality not found")
            ELSE IF in.to_municipality_id = user.municipality_id
            THEN Refuse(400, "You are already registered in this municipality")
            ELSE IF HasPendingTransfer(user.id)
            THEN Refuse(400, "You already have an active transfer request")
            ELSE Create(user)

\* the admin's decision: an approved transfer moves the resident
DecideTransfer(in) ==
    LET route == "decide_transfer" IN
    /\ in.route = route
    /\ req' = in
    /\ pending' = FALSE
    /\ UNCHANGED <<now, tokens, audit_logs>>
    /\ DocsUnchanged
    /\ BenefitsUnchanged
    /\ MarketUnchanged
    /\ CallsUnchanged
    /\ SeedsUnchanged
    /\ IF \E t \in transfers : t.id = in.id /\ t.status = "pending"
       THEN LET t == CHOOSE t \in transfers : t.id = in.id
                user == GetAccount(t.user_id) IN
            /\ transfers' = (transfers \ {t}) \cup {[t EXCEPT !.status = in.status]}
            /\ accounts' = IF in.status = "approved"
                            THEN WithAccount(user, [user EXCEPT !.municipality_id =
                                                                    t.to_municipality_id])
                            ELSE accounts
            /\ resp' = [Response(route, 200, "") EXCEPT !.id = t.id]
       ELSE /\ resp' = Response(route, 404, "Transfer request not found")
            /\ UNCHANGED <<transfers, accounts>>

InitTransfer ==
    /\ EmptyDatabase
    /\ now = 0
    /\ req = NoRequest
    /\ resp = NoResponse
    /\ accounts = {Account(1, "mover", "Secure12", "resident", 1, TRUE),
                   Account(2, "settler", "Secure12", "resident", 2, TRUE)}
    /\ tokens = {}
    /\ transfers = {}
    /\ audit_logs = {}
    /\ items = {}
    /\ transactions = {}
    /\ NoCalls
    /\ municipalities = {Municipality(1, "Masinloc", "masinloc", "000000002"),
                         Municipality(2, "Iba", "iba-city", "000000003")}
    /\ barangays = {}
    /\ render_db = NoSeededTables

NextTransfer ==
    \/ \E identity \in {JStr(<<"1">>), JStr(<<"2">>), JNone}, to \in 1..3 :
          RequestTransfer([route |-> "request_transfer", identity |-> identity,
                           to_municipality_id |-> to, notes |-> "Relocating for work"])
    \/ \E id \in 1..MaxTransfers, status \in {"approved", "rejected"} :
          DecideTransfer([route |-> "decide_transfer", id |-> id, status |-> status])

SpecTransfer == InitTransfer /\ [][NextTransfer]_vars

PendingTransfers(table, user_id) == {t \in table : t.user_id = user_id /\ t.status = "pending"}

\* C18: no resident ever has two pending transfer requests; a transfer
\* request made while one is pending is answered 400 'active transfer
\* request' and adds no row; one answered 201 adds a single pending row
\* from the resident's current municipality to the target.
C18_OnePendingTransfer ==
    [][/\ \A a \in accounts' : Cardinality(PendingTransfers(transfers', a.id)) <= 1
       /\ (req'.route = "request_transfer" /\ <<req, resp, transfers>>' # <<req, resp, transfers>>) =>
             \A a \in accounts :
                 JStr(<<ToString(a.id)>>) = req'.identity =>
                     /\ (PendingTransfers(transfers, a.id) # {}
                          /\ req'.to_municipality_id \in MunicipalityIds \ {a.municipality_id}) =>
                             /\ resp'.status = 400
                             /\ resp'.error = "You already have an active transfer request"
                             /\ transfers' = transfers
                     /\ (resp'.status = 201) =>
                             \E t \in transfers' \ transfers :
                                 /\ transfers' = transfers \cup {t}
                                 /\ t.status = "pending"
                                 /\ t.user_id = a.id
                                 /\ t.from_municipality_id = a.municipality_id
                                 /\ t.to_municipality_id = req'.to_municipality_id
                     /\ (resp'.status # 201) => transfers' = transfers]_vars

\* a second request was refused while the first is still pending
C18_Witness ==
    /\ resp.route = "request_transfer"
    /\ resp.status = 400
    /\ resp.error = "You already have an active transfer request"
    /\ req.identity = JStr(<<"1">>)
    /\ PendingTransfers(transfers, 1) # {}

(***************************************************************************)
(* scripts/seed_admins_locations.py: slugify and upsert_municipalities.    *)
(* Names, slugs and codes are sequences of characters.                     *)
(***************************************************************************)
MaxPayload == 2

LowerLetters ==
    {"a", "b", "c", "d", "e", "f", "g", "h", "i", "j", "k", "l", "m",
     "n", "o", "p", "q", "r", "s", "t", "u", "v", "w", "x", "y", "z"}

\* the characters the pattern [^a-z0-9] leaves alone
SlugChars == LowerLetters \cup Digits

LowerSeq(s) == [i \in 1..Len(s) |-> Lower(s[i])]

\* re.sub(r"[^a-z0-9]+", "-", value)
RECURSIVE DashRuns(_)
DashRuns(s) ==
    IF s = <<>> THEN <<>>
    ELSE IF s[1] \in SlugChars THEN <<s[1]>> \o DashRuns(Tail(s))
    ELSE IF Len(s) > 1 /\ s[2] \notin SlugChars THEN DashRuns(Tail(s))
    ELSE <<"-">> \o DashRuns(Tail(s))

\* re.sub(r"-+", "-", value)
RECURSIVE CollapseDashes(_)
CollapseDashes(s) ==
    IF s = <<>> THEN <<>>
    ELSE IF s[1] = "-" /\ Len(s) > 1 /\ s[2] = "-" THEN CollapseDashes(Tail(s))
    ELSE <<s[1]>> \o CollapseDashes(Tail(s))

\* value.strip("-")
RECURSIVE StripDashes(_)
StripDashes(s) ==
    IF s # <<>> /\ s[1] = "-" THEN StripDashes(Tail(s))
    ELSE IF s # <<>> /\ s[Len(s)] = "-" THEN StripDashes(SubSeq(s, 1, Len(s) - 1))
    ELSE s

slugify(value) == StripDashes(CollapseDashes(DashRuns(LowerSeq(Strip(value)))))

DigitChar(n) ==
    CASE n = 0 -> "0" [] n = 1 -> "1" [] n = 2 -> "2" [] n = 3 -> "3"
      [] n = 4 -> "4" [] n = 5 -> "5" [] n = 6 -> "6" [] n = 7 -> "7"
      [] n = 8 -> "8" [] n = 9 -> "9"

\* str(n) of a natural number
RECURSIVE Str(_)
Str(n) == IF n < 10 THEN <<DigitChar(n)>> ELSE Str(n \div 10) \o <<DigitChar(n % 10)>>

\* f"{idx:03d}"
Pad3(n) ==
    LET digits == Str(n) IN
    IF Len(digits) >= 3 THEN digits ELSE [i \in 1..(3 - Len(digits)) |-> "0"] \o digits

\* the while loop over seen_slugs: the first of base-2, base-3, ... not seen
RECURSIVE FreeSlug(_, _, _)
FreeSlug(base_slug, suffix, seen_slugs) ==
    LET brgy_slug == base_slug \o <<"-">> \o Str(suffix) IN
    IF brgy_slug \in seen_slugs THEN FreeSlug(base_slug, suffix + 1, seen_slugs)
    ELSE brgy_slug

BarangaySlug(base_slug, seen_slugs) ==
    IF base_slug \in seen_slugs THEN FreeSlug(base_slug, 2, seen_slugs) ELSE base_slug

\* the id the database gives a new row of a table
NewRowId(table) ==
    IF table = {} THEN 1
    ELSE (CHOOSE n \in {r.id : r \in table} : \A r \in table : r.id <= n) + 1

\* an upsert that leaves the barangays of an existing municipality in place
KeepingBarangays(table, municipality_id) == table

\* db.session.query(Barangay).filter_by(municipality_id=municipality.id).delete()
WithoutBarangaysOf(table, municipality_id) ==
    {b \in table : b.municipality_id # municipality_id}

FallbackSlug(idx) == <<"b", "a", "r", "a", "n", "g", "a", "y", "-">> \o Str(idx)

\* the loop over enumerate(barangays, start=1)
RECURSIVE AddBarangays(_, _, _, _, _)
AddBarangays(names, idx, seen_slugs, municipality, table) ==
    IF idx > Len(names) THEN table
    ELSE LET brgy_name == Strip(names[idx]) IN
         IF brgy_name = <<>>
         THEN AddBarangays(names, idx + 1, seen_slugs, municipality, table)
         ELSE LET base_slug == IF slugify(brgy_name) # <<>> THEN slugify(brgy_name)
                               ELSE FallbackSlug(idx)
                  brgy_slug == BarangaySlug(base_slug, seen_slugs)
                  barangay == [id |-> NewRowId(table), name |-> brgy_name,
                               slug |-> brgy_slug, municipality_id |-> municipality.id,
                               psgc_code |-> municipality.psgc_code \o Pad3(idx),
                               is_active |-> TRUE]
              IN AddBarangays(names, idx + 1, seen_slugs \cup {brgy_slug}, municipality,
                              table \cup {barangay})

DefaultDescription(muni_name) == <<"M", "u", "n", "i", "c", "i", "p", "a", "l", "i", "t", "y",
                                   " ", "o", "f", " ">> \o muni_name

\* the loop over the payload, on the session's view of the two tables;
\* ok is FALSE when the ValueError for a missing PSGC code is raised
RECURSIVE UpsertFrom(_, _)
UpsertFrom(payload, session) ==
    IF payload = <<>> THEN [ok |-> TRUE, db |-> session]
    ELSE LET entry == Head(payload)
             slug == slugify(entry.name)
             found == {m \in session.municipalities : m.slug = slug}
         IN
         IF entry.psgc_code = <<>> THEN [ok |-> FALSE, db |-> session]
         ELSE IF found = {}
         THEN LET municipality ==
                      [id |-> NewRowId(session.municipalities), name |-> entry.name,
                       slug |-> slug, psgc_code |-> entry.psgc_code,
                       description |-> DefaultDescription(entry.name), is_active |-> TRUE]
              IN UpsertFrom(Tail(payload),
                     [municipalities |-> session.municipalities \cup {municipality},
                      barangays |-> AddBarangays(entry.barangays, 1, {}, municipality,
                                                 session.barangays)])
         ELSE LET old == CHOOSE m \in found : TRUE
                  municipality ==
                      [old EXCEPT !.name = entry.name, !.slug = slug,
                                  !.psgc_code = entry.psgc_code, !.is_active = TRUE,
                                  !.description = IF old.description = <<>>
                                                  THEN DefaultDescription(entry.name)
                                                  ELSE old.description]
              IN UpsertFrom(Tail(payload),
                     [municipalities |-> (session.municipalities \ {old}) \cup {municipality},
                      barangays |-> AddBarangays(entry.barangays, 1, {}, municipality,
                                       WithoutBarangaysOf(session.barangays, old.id))])

\* one run of upsert_municipalities: the rows are committed at the end of the
\* loop, and nothing is when the ValueError ends the run before the commit
UpsertMunicipalities(in) ==
    LET route == "upsert_municipalities"
        run == IF resp = NoResponse THEN 1 ELSE resp.id + 1
        done == UpsertFrom(in.payload, [municipalities |-> municipalities,
                                        barangays |-> barangays])
    IN
    /\ in.route = route
    /\ resp = NoResponse \/ (resp.route = route /\ resp.id = 1)
    /\ req' = in
    /\ pending' = FALSE
    /\ UNCHANGED <<now, render_db>>
    /\ DocsUnchanged
    /\ BenefitsUnchanged
    /\ AccountsUnchanged
    /\ MarketUnchanged
    /\ CallsUnchanged
    /\ IF done.ok
       THEN /\ municipalities' = done.db.municipalities
            /\ barangays' = done.db.barangays
            /\ resp' = [Response(route, 200, "") EXCEPT !.id = run]
       ELSE /\ UNCHANGED <<municipalities, barangays>>
            /\ resp' = [Response(route, 500, "PSGC code missing") EXCEPT !.id = run]

\* keys of the locations file: names with the same and with different slugs
MunicipalityNames == {<<"I", "b", "a">>, <<"I", "B", "A">>, <<"A", "b", "a">>}

PsgcCodes == {<<"7", "1">>, <<"7", "2">>, <<>>}

\* barangay lists: empty, repeated names, names that differ only in case and
\* padding, a blank name, a name that collides with a suffixed slug, a name
\* without any slug character
BarangayLists ==
    {<<>>,
     << <<"A">> >>,
     << <<"A">>, <<" ", "a", " ">> >>,
     << <<" ">>, <<"A">> >>,
     << <<"A">>, <<"A">>, <<"A", "-", "2">> >>,
     << <<"-">>, <<"B", " ", "a">> >>}

PayloadEntries ==
    [name : MunicipalityNames, psgc_code : PsgcCodes, barangays : BarangayLists]

\* load_zambales_data: one entry per key of the file, so the names differ
Payloads ==
    {payload \in UNION {[1..n -> PayloadEntries] : n \in 0..MaxPayload} :
        \A i, j \in 1..Len(payload) : i # j => payload[i].name # payload[j].name}

\* the tables before the first run: empty; an earlier 'iba' with other values
\* and its own barangays; a municipality the payload does not name
ExistingLocations ==
    {[municipalities |-> {}, barangays |-> {}],
     [municipalities |-> {[id |-> 1, name |-> <<"O", "l", "d">>, slug |-> <<"i", "b", "a">>,
                           psgc_code |-> <<"0", "0">>, description |-> <<>>,
                           is_active |-> FALSE]},
      barangays |-> {[id |-> 1, name |-> <<"Z">>, slug |-> <<"z">>, municipality_id |-> 1,
                      psgc_code |-> <<"0", "0", "0", "0", "1">>, is_active |-> TRUE],
                     [id |-> 2, name |-> <<"A">>, slug |-> <<"a">>, municipality_id |-> 1,
                      psgc_code |-> <<"0", "0", "0", "0", "2">>, is_active |-> FALSE]}],
     [municipalities |-> {[id |-> 1, name |-> <<"B", "a", "n", "i">>,
                           slug |-> <<"b", "a", "n", "i">>, psgc_code |-> <<"0", "5">>,
                           description |-> <<"B">>, is_active |-> TRUE]},
      barangays |-> {[id |-> 1, name |-> <<"A">>, slug |-> <<"a">>, municipality_id |-> 1,
                      psgc_code |-> <<"0", "5", "0", "0", "1">>, is_active |-> TRUE]}]}

InitGeoSeed ==
    /\ EmptyDatabase
    /\ now = 0
    /\ req \in {[route |-> "upsert_municipalities", payload |-> payload] :
                   payload \in Payloads}
    /\ resp = NoResponse
    /\ accounts = {}
    /\ tokens = {}
    /\ transfers = {}
    /\ audit_logs = {}
    /\ items = {}
    /\ transactions = {}
    /\ NoCalls
    /\ \E existing \in ExistingLocations :
          /\ municipalities = existing.municipalities
          /\ barangays = existing.barangays
    /\ render_db = NoSeededTables

NextGeoSeed == UpsertMunicipalities(req)

SpecGeoSeed == InitGeoSeed /\ [][NextGeoSeed]_vars

BarangaysOf(table, municipality_id) == {b \in table : b.municipality_id = municipality_id}

\* the municipalities with their barangay listings, without the row ids
Listing(municipality_rows, barangay_rows) ==
    {[name |-> m.name, slug |-> m.slug, psgc_code |-> m.psgc_code, is_active |-> m.is_active,
      barangays |-> {[name |-> b.name, slug |-> b.slug, psgc_code |-> b.psgc_code] :
                        b \in BarangaysOf(barangay_rows, m.id)}] : m \in municipality_rows}

NonBlankNames(names) == {i \in 1..Len(names) : Strip(names[i]) # <<>>}

\* C19: a second run of upsert_municipalities with the same payload leaves
\* the municipalities and every barangay listing (name, slug, psgc_code) as
\* the first run left them; after a run there is one municipality per slug of
\* the payload, active, with the name and psgc_code of the payload, and its
\* barangays are one row per non-blank name of the payload with distinct
\* slugs and codes.
C19_GeoSeedIdempotent ==
    [][(resp'.route = "upsert_municipalities" /\ resp' # resp) =>
          /\ (resp.route = "upsert_municipalities") =>
                /\ Listing(municipalities', barangays') = Listing(municipalities, barangays)
                /\ resp'.status = resp.status
          /\ (resp'.status = 200) =>
                \A i \in 1..Len(req'.payload) :
                    LET entry == req'.payload[i]
                        same == {m \in municipalities' : m.slug = slugify(entry.name)}
                        last == \A j \in (i + 1)..Len(req'.payload) :
                                    slugify(req'.payload[j].name) # slugify(entry.name)
                    IN /\ Cardinality(same) = 1
                       /\ last =>
                            \A m \in same :
                                LET rows == BarangaysOf(barangays', m.id) IN
                                /\ m.name = entry.name
                                /\ m.psgc_code = entry.psgc_code
                                /\ m.is_active
                                /\ Cardinality(rows) = Cardinality(NonBlankNames(entry.barangays))
                                /\ Cardinality({b.slug : b \in rows}) = Cardinality(rows)
                                /\ Cardinality({b.psgc_code : b \in rows}) = Cardinality(rows)
                                /\ \A b \in rows :
                                      \E k \in NonBlankNames(entry.barangays) :
                                          b.name = Strip(entry.barangays[k])]_vars

\* the second run is over, on a payload of two municipalities one of which
\* repeats a barangay name
C19_Witness ==
    /\ resp.route = "upsert_municipalities"
    /\ resp.id = 2
    /\ resp.status = 200
    /\ Len(req.payload) = 2
    /\ \E m \in municipalities :
          /\ m.slug = <<"i", "b", "a">>
          /\ \E b \in BarangaysOf(barangays, m.id) : b.slug = <<"a", "-", "2">>
    /\ \E m \in municipalities : m.slug = <<"a", "b", "a">>

(***************************************************************************)
(* scripts/seed_render_data.py: the baseline rows of document_types,       *)
(* benefit_programs and issue_categories, written with INSERT ... ON        *)
(* CONFLICT ... DO UPDATE.  The text columns description, requirements,    *)
(* eligibility_criteria and required_documents are written like the other  *)
(* columns of their statement and are left out of the rows.                *)
(***************************************************************************)

\* datetime.utcnow().year: the clock counts half years
NowYear(t) == 2025 + (t \div 2)

\* INSERT of a row under a key that is already there, without ON CONFLICT handling
InsertAgain(table, key, row, updates) == table \cup {[row EXCEPT !.id = NewRowId(table)]}

\* INSERT ... ON CONFLICT (key) DO UPDATE SET updates
Upsert(table, key, row, updates) ==
    LET conflict == {r \in table : r[key] = row[key]} IN
    IF conflict = {} THEN table \cup {[row EXCEPT !.id = NewRowId(table)]}
    ELSE (table \ conflict) \cup
         {[c \in DOMAIN old |-> IF c \in DOMAIN updates THEN updates[c] ELSE old[c]] :
             old \in conflict}

DocType(code, authority_level, fee, processing_days, supports_digital) ==
    [code |-> code, authority_level |-> authority_level, fee |-> fee,
     processing_days |-> processing_days, supports_physical |-> TRUE,
     supports_digital |-> supports_digital, is_active |-> TRUE]

document_types ==
    <<DocType("BRGY-CLEARANCE", "barangay", "80.00", 2, FALSE),
       DocType("BRGY-RESIDENCY", "barangay", "0.00", 2, TRUE),
       DocType("BRGY-INDIGENCY", "barangay", "0.00", 2, TRUE),
       DocType("BRGY-SOLOPARENT", "barangay", "0.00", 3, TRUE),
       DocType("BRGY-BUSINESS", "barangay", "150.00", 3, FALSE),
       DocType("BRGY-ID", "barangay", "50.00", 4, FALSE),
       DocType("MUN-MAYOR-PERMIT", "municipal", "500.00", 5, FALSE),
       DocType("MUN-BUSINESS-RENEW", "municipal", "650.00", 5, FALSE),
       DocType("MUN-CEDULA", "municipal", "100.00", 1, FALSE),
       DocType("MUN-HEALTH-CERT", "municipal", "200.00", 3, FALSE),
       DocType("MUN-BIRTH-CERT", "municipal", "120.00", 4, FALSE),
       DocType("MUN-MARRIAGE-LIC", "municipal", "150.00", 10, FALSE),
       DocType("MUN-SCHOLAR-ENDORSE", "municipal", "0.00", 3, TRUE),
       DocType("MUN-NO-ARREARS", "municipal", "0.00", 3, TRUE)>>

\* the loop of seed_document_types from its i-th entry on, at time t
RECURSIVE DocumentTypesFrom(_, _, _)
DocumentTypesFrom(i, table, t) ==
    IF i > Len(document_types) THEN table
    ELSE LET doc == document_types[i] IN
         DocumentTypesFrom(i + 1,
             Upsert(table, "code",
                    [id |-> NoneId, code |-> doc.code, authority_level |-> doc.authority_level,
                     fee |-> doc.fee, processing_days |-> doc.processing_days,
                     supports_physical |-> doc.supports_physical,
                     supports_digital |-> doc.supports_digital, is_active |-> doc.is_active,
                     updated_at |-> NoTime],
                    [authority_level |-> doc.authority_level, fee |-> doc.fee,
                     processing_days |-> doc.processing_days,
                     supports_physical |-> doc.supports_physical,
                     supports_digital |-> doc.supports_digital, is_active |-> doc.is_active,
                     updated_at |-> t]),
             t)

Upper(c) ==
    CASE c = "a" -> "A"
      [] c = "b" -> "B"
      [] c = "i" -> "I"
      [] OTHER -> c

\* muni.slug.replace("-", "_").upper()
SlugPrefix(slug) == [i \in 1..Len(slug) |-> Upper(IF slug[i] = "-" THEN "_" ELSE slug[i])]

Template(code, name, program_type, benefit_amount, max_beneficiaries) ==
    [code |-> code, name |-> name, program_type |-> program_type,
     benefit_amount |-> benefit_amount, max_beneficiaries |-> max_beneficiaries]

build_benefit_templates(muni, now_year) ==
    LET slug_prefix == SlugPrefix(muni.slug) IN
    <<Template(<<slug_prefix, "_MEDCARE_", now_year>>,
               <<muni.name, " Medical Assistance Program">>, "health", "5000.00", 300),
      Template(<<slug_prefix, "_LIVELIHOOD_", now_year>>,
               <<muni.name, " Livelihood Starter Kits">>, "livelihood", "8000.00", 150),
      Template(<<slug_prefix, "_SCHOLAR_", now_year>>,
               <<muni.name, " Senior High & College Scholarship">>, "education", "6000.00", 120),
      Template(<<slug_prefix, "_DISASTER_", now_year>>,
               <<muni.name, " Disaster Recovery Cash Grant">>, "social", "7000.00", 200)>>

\* the inner loop of seed_benefit_programs from the i-th template on
RECURSIVE TemplatesFrom(_, _, _, _)
TemplatesFrom(i, muni, table, t) ==
    LET templates == build_benefit_templates(muni, NowYear(t)) IN
    IF i > Len(templates) THEN table
    ELSE LET template == templates[i] IN
         TemplatesFrom(i + 1, muni,
             Upsert(table, "code",
                    [id |-> NoneId, code |-> template.code, name |-> template.name,
                     program_type |-> template.program_type, municipality_id |-> muni.id,
                     application_start |-> <<NowYear(t), 1, 1>>,
                     application_end |-> <<NowYear(t), 12, 31>>,
                     benefit_amount |-> template.benefit_amount,
                     max_beneficiaries |-> template.max_beneficiaries,
                     current_beneficiaries |-> 0, is_active |-> TRUE,
                     is_accepting_applications |-> TRUE, duration_days |-> 365,
                     updated_at |-> NoTime],
                    [name |-> template.name, program_type |-> template.program_type,
                     municipality_id |-> muni.id,
                     application_start |-> <<NowYear(t), 1, 1>>,
                     application_end |-> <<NowYear(t), 12, 31>>,
                     benefit_amount |-> template.benefit_amount,
                     max_beneficiaries |-> template.max_beneficiaries,
                     is_active |-> TRUE, is_accepting_applications |-> TRUE,
                     duration_days |-> 365, updated_at |-> t]),
             t)

\* the outer loop of seed_benefit_programs over the municipalities, by id
RECURSIVE BenefitProgramsFrom(_, _, _)
BenefitProgramsFrom(municipality_rows, table, t) ==
    IF municipality_rows = {} THEN table
    ELSE LET muni == CHOOSE m \in municipality_rows :
                         \A other \in municipality_rows : m.id <= other.id
         IN BenefitProgramsFrom(municipality_rows \ {muni}, TemplatesFrom(1, muni, table, t), t)

categories ==
    <<[name |-> "Technical Problem", slug |-> "technical-problem", icon |-> "cpu"],
       [name |-> "Infrastructure", slug |-> "infrastructure", icon |-> "road"],
       [name |-> "Utilities & Services", slug |-> "utilities-services", icon |-> "plug"],
       [name |-> "Public Safety", slug |-> "public-safety", icon |-> "shield"],
       [name |-> "Health & Sanitation", slug |-> "health-sanitation", icon |-> "heart-pulse"],
       [name |-> "Community Services", slug |-> "community-services", icon |-> "users"],
       [name |-> "Environmental Concern", slug |-> "environmental-concern", icon |-> "leaf"],
       [name |-> "Other / General Inquiry", slug |-> "other", icon |-> "message-circle"]>>

\* the loop of seed_issue_categories from its i-th entry on
RECURSIVE IssueCategoriesFrom(_, _)
IssueCategoriesFrom(i, table) ==
    IF i > Len(categories) THEN table
    ELSE LET cat == categories[i] IN
         IssueCategoriesFrom(i + 1,
             Upsert(table, "slug",
                    [id |-> NoneId, name |-> cat.name, slug |-> cat.slug, icon |-> cat.icon,
                     is_active |-> TRUE],
                    [name |-> cat.name, icon |-> cat.icon, is_active |-> TRUE]))

SeedFrame ==
    /\ pending' = FALSE
    /\ UNCHANGED <<now, municipalities, barangays>>
    /\ DocsUnchanged
    /\ BenefitsUnchanged
    /\ AccountsUnchanged
    /\ MarketUnchanged
    /\ CallsUnchanged

seed_document_types ==
    /\ req' = [route |-> "seed_document_types"]
    /\ SeedFrame
    /\ render_db' = [render_db EXCEPT
                        !.document_types = DocumentTypesFrom(1, render_db.document_types, now)]
    /\ resp' = [Response("seed_document_types", 200, "") EXCEPT !.id = Len(document_types)]

seed_benefit_programs ==
    /\ req' = [route |-> "seed_benefit_programs"]
    /\ SeedFrame
    /\ render_db' = [render_db EXCEPT
                        !.benefit_programs =
                            BenefitProgramsFrom(municipalities, render_db.benefit_programs, now)]
    /\ resp' = [Response("seed_benefit_programs", 200, "") EXCEPT
                   !.id = 4 * Cardinality(municipalities)]

seed_issue_categories ==
    /\ req' = [route |-> "seed_issue_categories"]
    /\ SeedFrame
    /\ render_db' = [render_db EXCEPT
                        !.issue_categories = IssueCategoriesFrom(1, render_db.issue_categories)]
    /\ resp' = [Response("seed_issue_categories", 200, "") EXCEPT !.id = Len(categories)]

\* the municipalities table the seed reads: id, name, slug
SeedMunicipalities ==
    {{},
     {[id |-> 1, name |-> "Iba", slug |-> <<"i", "b", "a">>]},
     {[id |-> 1, name |-> "Iba", slug |-> <<"i", "b", "a">>],
      [id |-> 2, name |-> "Aba Bay", slug |-> <<"a", "b", "a", "-", "b">>]},
     {[id |-> 1, name |-> "Aba Bay", slug |-> <<"a", "b", "a", "-", "b">>],
      [id |-> 2, name |-> "Aba B", slug |-> <<"a", "b", "a", "_", "b">>]}}

\* the three tables before the first run: empty, or holding rows under seeded
\* keys with other values next to rows the seed does not name
ExistingBaseline ==
    {NoSeededTables,
     [document_types |->
          {[id |-> 1, code |-> "BRGY-CLEARANCE", authority_level |-> "municipal",
            fee |-> "50.00", processing_days |-> 7, supports_physical |-> FALSE,
            supports_digital |-> TRUE, is_active |-> FALSE, updated_at |-> NoTime],
           [id |-> 2, code |-> "CUSTOM", authority_level |-> "barangay",
            fee |-> "10.00", processing_days |-> 1, supports_physical |-> TRUE,
            supports_digital |-> FALSE, is_active |-> TRUE, updated_at |-> NoTime]},
      benefit_programs |->
          {[id |-> 1, code |-> <<<<"I", "B", "A">>, "_MEDCARE_", 2025>>,
            name |-> <<"Iba", " Medical Aid">>, program_type |-> "general",
            municipality_id |-> 1, application_start |-> <<2024, 1, 1>>,
            application_end |-> <<2024, 12, 31>>, benefit_amount |-> "1000.00",
            max_beneficiaries |-> 10, current_beneficiaries |-> 5, is_active |-> FALSE,
            is_accepting_applications |-> FALSE, duration_days |-> 30,
            updated_at |-> NoTime]},
      issue_categories |->
          {[id |-> 1, name |-> "Misc", slug |-> "other", icon |-> "dots",
            is_active |-> FALSE],
           [id |-> 2, name |-> "Noise", slug |-> "noise", icon |-> "volume",
            is_active |-> TRUE]}]}

InitSeed ==
    /\ EmptyDatabase
    /\ now = 0
    /\ req = NoRequest
    /\ resp = NoResponse
    /\ accounts = {}
    /\ tokens = {}
    /\ transfers = {}
    /\ audit_logs = {}
    /\ items = {}
    /\ transactions = {}
    /\ NoCalls
    /\ municipalities \in SeedMunicipalities
    /\ barangays = {}
    /\ render_db \in ExistingBaseline

NextSeed ==
    \/ seed_document_types
    \/ seed_benefit_programs
    \/ seed_issue_categories
    \/ Tick

SpecSeed == InitSeed /\ [][NextSeed]_vars

\* the three seeds run one after the other at time t, as main runs them
SeedAll(db, t) ==
    [document_types |-> DocumentTypesFrom(1, db.document_types, t),
     benefit_programs |-> BenefitProgramsFrom(municipalities, db.benefit_programs, t),
     issue_categories |-> IssueCategoriesFrom(1, db.issue_categories)]

\* a table without the time of the last update
Seeded(table) ==
    {[c \in DOMAIN r \ {"updated_at"} |-> r[c]] : r \in table}

SeededKeys(t) ==
    [document_types |-> {document_types[i].code : i \in 1..Len(document_types)},
     benefit_programs |->
         {build_benefit_templates(m, NowYear(t))[i].code : m \in municipalities, i \in 1..4},
     issue_categories |-> {categories[i].slug : i \in 1..Len(categories)}]

KeyOf(name, r) == IF name = "issue_categories" THEN r.slug ELSE r.code

\* C20: from every state, running the three seeds and running them again later
\* in the same year over the same municipalities gives tables with the same
\* number of rows and, but for updated_at, the same rows as the first run;
\* each seeded code or slug names one row.
C20_BaselineSeedIdempotent ==
    \A t \in now..MaxNow :
        NowYear(t) = NowYear(now) =>
            LET once == SeedAll(render_db, now)
                twice == SeedAll(once, t)
            IN \A name \in DOMAIN once :
                   /\ Cardinality(twice[name]) = Cardinality(once[name])
                   /\ Seeded(twice[name]) = Seeded(once[name])
                   /\ \A key \in SeededKeys(now)[name] :
                          Cardinality({r \in twice[name] : KeyOf(name, r) = key}) = 1

\* all three tables are seeded, over two municipalities, and a later run has
\* updated rows that an earlier run wrote
C20_Witness ==
    /\ resp.route = "seed_benefit_programs"
    /\ Cardinality(municipalities) = 2
    /\ Cardinality(render_db.document_types) >= Len(document_types)
    /\ Cardinality(render_db.issue_categories) >= Len(categories)
    /\ \E r \in render_db.benefit_programs : r.updated_at = 1 /\ r.current_beneficiaries = 0
    /\ \E r \in render_db.document_types : r.code = "MUN-CEDULA" /\ r.updated_at = 1

(***************************************************************************)
(* Delivery methods of stored document requests.                           *)
(***************************************************************************)

\* C21: every stored document request has delivery_method 'pickup' or
\* 'digital'; a creation call with any other delivery_method is refused and
\* adds no row.
C21_DeliveryMethodPickupOrDigital ==
    /\ \A r \in requests : r.delivery_method \in {"pickup", "digital"}
    /\ (resp.route = "create_document_request" /\ resp.status = 201) =>
           Lower(req.data.delivery_method) \in {"pickup", "digital"}

(***************************************************************************)
(* Program checks of create_application.                                   *)
(***************************************************************************)

\* the request names a program by an integer and gets as far as the lookup
ReachedProgramLookup(in) ==
    /\ in.route = "create_application"
    /\ in.caller \in UserIds
    /\ in.fault # "user_query"
    /\ PyInt(in.data.program_id).ok

\* C22: create_application adds a row only for a program that exists, is
\* active and is province-wide or of the caller's municipality; a missing or
\* inactive program is answered 400 'Invalid program', a program of another
\* municipality 403, and neither adds a row.
C22_ProgramExistsActiveInScope ==
    [][AppStep =>
        /\ ReachedProgramLookup(req') =>
              LET id == PyInt(req'.data.program_id).v
                  own == Users[req'.caller].municipality_id
              IN /\ (id \notin ProgramIds \/ ~programs[id].is_active) =>
                        /\ resp'.status = 400
                        /\ resp'.error = "Invalid program"
                        /\ NewApplications = {}
                 /\ (id \in ProgramIds /\ programs[id].is_active
                     /\ programs[id].municipality_id \notin {NoneId, own}) =>
                        /\ resp'.status = 403
                        /\ NewApplications = {}
        /\ \A a \in NewApplications :
              /\ a.program_id \in ProgramIds
              /\ programs[a.program_id].is_active
              /\ programs[a.program_id].municipality_id
                    \in {NoneId, Users[a.user_id].municipality_id}
              /\ a.user_id = req'.caller
      ]_vars

\* a resident of municipality 1 asked for the active program of municipality 2
\* and was refused with 403, no row added
C22_Witness ==
    /\ resp.route = "create_application"
    /\ resp.status = 403
    /\ ReachedProgramLookup(req)
    /\ PyInt(req.data.program_id).v = 3
    /\ programs[3].is_active
    /\ Users[req.caller].municipality_id = 1
    /\ applications = {}

(***************************************************************************)
(* list_programs: expired programs are completed before the answer.        *)
(***************************************************************************)

\* the active programs the query of list_programs matches
Matched(municipality_id) ==
    {p \in ProgramIds :
        /\ programs[p].is_active
        /\ municipality_id = NoneId
              \/ programs[p].municipality_id \in {municipality_id, NoneId}}

\* created_at + duration_days <= now, for a program with a duration
DurationElapsed(p) ==
    programs[p].duration_days # NoneId
    /\ programs[p].created_at + programs[p].duration_days <= now

PickupCreations ==
    {JsonDocRequest(u, [DocData(OwnMunicipality(u), JInt(<<"5">>), dm) EXCEPT
                            !.pickup_location = loc,
                            !.barangay_id = b,
                            !.delivery_address = addr]) :
        u \in Callers,
        dm \in {"pickup", "Pickup", "digital"},
        loc \in {None, "", "barangay", "Barangay", "municipal", "elsewhere"},
        b \in {JNone, JStr(<<>>), JInt(<<"1", "1">>), JInt(<<"2", "1">>), JStr(<<"9">>),
                JStr(<<"x">>)},
        addr \in {None, "Some other address"}}

InitPickup ==
    /\ EmptyDatabase
    /\ now = 0
    /\ req \in PickupCreations
    /\ resp = NoResponse
    /\ OtherTablesEmpty

NextPickup == resp = NoResponse /\ CreateDocumentRequest(req)

SpecPickup == InitPickup /\ [][NextPickup]_vars

\* the request asks for the barangay hall
AsksBarangayHall(in) ==
    in.data.pickup_location \in {"barangay", "Barangay"}

\* C24: the delivery_address and barangay_id stored on a pickup request come
\* from the caller's profile and the pickup_location choice alone: the
\* barangay hall of the caller's own barangay with the caller's barangay_id
\* when the choice is 'barangay', else the municipal hall with barangay_id
\* null; the delivery_address and barangay_id the client sent are not stored.
C24_PickupDerivedFromProfile ==
    [][DocStep =>
          \A r \in NewRequests :
              r.delivery_method = "pickup" =>
                  LET user == Users[r.user_id] IN
                  /\ r.user_id = req'.caller
                  /\ IF AsksBarangayHall(req') /\ user.barangay_id # NoneId
                     THEN /\ r.delivery_address =
                               <<"Barangay", BarangayName(user.barangay_id), "Hall",
                                 MunicipalityName(user.municipality_id)>>
                          /\ r.barangay_id = user.barangay_id
                     ELSE /\ r.delivery_address =
                               <<"Municipal Hall", MunicipalityName(user.municipality_id)>>
                          /\ r.barangay_id = NoneId
      ]_vars

\* a pickup request at the barangay hall was created by a client that sent
\* another resident's barangay_id and a free-text address
C24_Witness ==
    /\ resp.route = "create_document_request"
    /\ resp.status = 201
    /\ req.caller = 1
    /\ req.data.pickup_location = "Barangay"
    /\ req.data.barangay_id = JInt(<<"2", "1">>)
    /\ req.data.delivery_address = "Some other address"
    /\ \E r \in requests : r.delivery_method = "pickup" /\ r.barangay_id = 11

(***************************************************************************)
(* Creation calls that do not answer 201.                                  *)
(***************************************************************************)

\* C25: a creation call that does not answer 201 leaves the stored document
\* requests and benefit applications as they were; when storing an
\* attachment fails after the commit of the row, the row is deleted and the
\* answer is 500 'Failed to save attachments'.
C25_CreationAllOrNothing ==
    [][(DocStep \/ AppStep) =>
          /\ resp'.status # 201 =>
                /\ requests' = requests
                /\ applications' = applications
          /\ resp'.error = "Failed to save attachments" =>
                /\ resp'.status = 500
                /\ requests' = requests
                /\ applications' = applications
      ]_vars

(***************************************************************************)
(* Calls side by side.  The framework runs the handlers on several         *)
(* workers, each with its own session; nothing in the routes coordinates   *)
(* them.  A creation is taken in the steps its code has: the row is built  *)
(* from the counts it reads, then added and committed, then its files are  *)
(* saved.  An upload loads the row, saves the files, then writes the list  *)
(* back.  Steps of different workers interleave.                           *)
(***************************************************************************)
MaxFiles == 2

UploadNames == {"a.png", "b.png"}

CallsFrame ==
    /\ UNCHANGED alembic_version
    /\ AccountsUnchanged
    /\ MarketUnchanged
    /\ SeedsUnchanged
    /\ UNCHANGED <<now, pending, programs>>

\* the files of the calls in flight and of the calls answered
FilesInPlay ==
    Cardinality(returned)
      + Cardinality({w \in Workers : inflight[w].phase \in {"saving", "loaded"}})

Building(table) ==
    Cardinality({w \in Workers : inflight[w].phase = "built" /\ inflight[w].table = table})

ReturnedPaths(table, id, paths) ==
    {<<table, id, paths[i]>> : i \in 1..Len(paths)}

\* a commit of a row whose number another row carries: document_requests and
\* benefit_applications are declared outside these sources, so the insert is
\* either stored or refused by the database
DuplicateOutcomes == {"stored", "integrity_error"}

DuplicateStoredOnly == {"stored"}

CommitOutcomes(duplicate) == IF duplicate THEN DuplicateOutcomes ELSE DuplicateStoredOnly

\* create_document_request, up to the DocumentRequest(...) it builds
BuildDocumentRequest(w, in) ==
    LET municipality == PyInt(in.data.municipality_id)
        type_id == PyInt(in.data.document_type_id)
        barangay == IF in.data.barangay_id.t = "none" \/ in.data.barangay_id.s = <<>>
                    THEN PyOk(NoneId) ELSE PyInt(in.data.barangay_id)
        uploaded == UploadedRequirementFiles(in)
    IN
    /\ in.route = "create_document_request"
    /\ inflight[w] = Idle
    /\ nextRequestId + Building("document_requests") <= MaxRequests
    /\ FilesInPlay < MaxFiles
    /\ in.caller # NoneId /\ UserExists(in.caller) /\ ~MissingRequired(in.data)
    /\ municipality.ok /\ MunicipalityAllowed(Users[in.caller], municipality.v)
    /\ type_id.ok /\ type_id.v \in DocumentTypeIds /\ DocumentTypes[type_id.v].is_active
    /\ Len(uploaded) >= RequirementCount(DocumentTypes[type_id.v])
    /\ ~(Lower(in.data.delivery_method) = "digital" /\ ~DigitalAllowed(DocumentTypes[type_id.v]))
    /\ IsSet(Users[in.caller].barangay_id)
    /\ barangay.ok
    /\ inflight' = [inflight EXCEPT ![w] =
          [phase |-> "built", table |-> "document_requests", in |-> in,
           row |-> NewDocumentRequest(in, in.caller, municipality.v, type_id.v, barangay.v)]]
    /\ req' = in
    /\ UNCHANGED <<resp, returned>>
    /\ DocsUnchanged
    /\ UNCHANGED <<applications, nextApplicationId>>
    /\ CallsFrame

\* db.session.add(req); db.session.commit()
CommitDocumentRequest(w) ==
    LET route == "create_document_request"
        call == inflight[w]
        row == [call.row EXCEPT !.id = nextRequestId]
        files == UploadedRequirementFiles(call.in) \o AdditionalFiles(call.in)
        duplicate == \E r \in requests : r.request_number = row.request_number
    IN
    /\ call.phase = "built" /\ call.table = "document_requests"
    /\ \E outcome \in CommitOutcomes(duplicate) :
          IF outcome = "integrity_error"
          THEN /\ resp' = RolledBack(Response(route, 500, "Failed to create document request"))
               /\ inflight' = [inflight EXCEPT ![w] = Idle]
               /\ DocsUnchanged
          ELSE /\ requests' = requests \cup {row}
               /\ nextRequestId' = nextRequestId + 1
               /\ IF files # <<>>
                  THEN /\ inflight' = [inflight EXCEPT ![w] =
                              [phase |-> "saving", table |-> call.table, in |-> call.in,
                               id |-> row.id]]
                       /\ UNCHANGED resp
                  ELSE /\ inflight' = [inflight EXCEPT ![w] = Idle]
                       /\ resp' = [Response(route, 201, "") EXCEPT !.id = row.id]
    /\ UNCHANGED <<req, returned>>
    /\ UNCHANGED <<applications, nextApplicationId>>
    /\ CallsFrame

\* the files of the creation: saved and listed on the row, or the row deleted
SaveRequestAttachments(w, saved_ok) ==
    LET route == "create_document_request"
        call == inflight[w]
        r == RowOf(requests, call.id)
        stored == StoredRequestPaths(
                      UploadedRequirementFiles(call.in) \o AdditionalFiles(call.in), call.id)
    IN
    /\ call.phase = "saving" /\ call.table = "document_requests"
    /\ inflight' = [inflight EXCEPT ![w] = Idle]
    /\ IF saved_ok
       THEN /\ requests' = (requests \ {r}) \cup {WithUploads(r, stored)}
            /\ resp' = [Response(route, 201, "") EXCEPT !.id = r.id]
            /\ returned' = returned \cup ReturnedPaths(call.table, r.id, stored)
       ELSE /\ requests' = requests \ {r}
            /\ resp' = RolledBack(Response(route, 500, "Failed to save attachments"))
            /\ UNCHANGED returned
    /\ UNCHANGED <<req, nextRequestId>>
    /\ UNCHANGED <<applications, nextApplicationId>>
    /\ CallsFrame

\* create_application, up to the BenefitApplication(...) it builds
BuildApplication(w, in) ==
    LET program_id == PyInt(in.data.program_id)
        uploaded == UploadedRequirementFiles(in)
    IN
    /\ in.route = "create_application"
    /\ inflight[w] = Idle
    /\ nextApplicationId + Building("benefit_applications") <= MaxApplications
    /\ FilesInPlay < MaxFiles
    /\ in.caller # NoneId /\ UserExists(in.caller)
    /\ in.data.program_id.t # "none" /\ program_id.ok
    /\ program_id.v \in ProgramIds /\ programs[program_id.v].is_active
    /\ ProgramInScope(Users[in.caller], programs[program_id.v])
    /\ Len(uploaded) >= Len(RequiredDocs(programs[program_id.v]))
    /\ inflight' = [inflight EXCEPT ![w] =
          [phase |-> "built", table |-> "benefit_applications", in |-> in,
           row |-> NewApplication(in.caller, program_id.v)]]
    /\ req' = in
    /\ UNCHANGED <<resp, returned>>
    /\ DocsUnchanged
    /\ UNCHANGED <<applications, nextApplicationId>>
    /\ CallsFrame

\* db.session.add(app); db.session.commit()
CommitApplication(w) ==
    LET route == "create_application"
        call == inflight[w]
        row == [call.row EXCEPT !.id = nextApplicationId]
        files == UploadedRequirementFiles(call.in) \o AdditionalFiles(call.in)
        duplicate == \E a \in applications : a.application_number = row.application_number
    IN
    /\ call.phase = "built" /\ call.table = "benefit_applications"
    /\ \E outcome \in CommitOutcomes(duplicate) :
          IF outcome = "integrity_error"
          THEN /\ resp' = RolledBack(Response(route, 500, "Failed to create application"))
               /\ inflight' = [inflight EXCEPT ![w] = Idle]
               /\ UNCHANGED <<applications, nextApplicationId>>
          ELSE /\ applications' = applications \cup {row}
               /\ nextApplicationId' = nextApplicationId + 1
               /\ IF files # <<>>
                  THEN /\ inflight' = [inflight EXCEPT ![w] =
                              [phase |-> "saving", table |-> call.table, in |-> call.in,
                               id |-> row.id]]
                       /\ UNCHANGED resp
                  ELSE /\ inflight' = [inflight EXCEPT ![w] = Idle]
                       /\ resp' = [Response(route, 201, "") EXCEPT !.id = row.id]
    /\ UNCHANGED <<req, returned>>
    /\ DocsUnchanged
    /\ CallsFrame

SaveApplicationAttachments(w, saved_ok) ==
    LET route == "create_application"
        call == inflight[w]
        a == GetApplication(call.id)
        stored == StoredBenefitPaths(
                      UploadedRequirementFiles(call.in) \o AdditionalFiles(call.in), call.id)
    IN
    /\ call.phase = "saving" /\ call.table = "benefit_applications"
    /\ inflight' = [inflight EXCEPT ![w] = Idle]
    /\ IF saved_ok
       THEN /\ applications' =
                  (applications \ {a}) \cup {[a EXCEPT !.supporting_documents = @ \o stored]}
            /\ resp' = [Response(route, 201, "") EXCEPT !.id = a.id]
            /\ returned' = returned \cup ReturnedPaths(call.table, a.id, stored)
       ELSE /\ applications' = applications \ {a}
            /\ resp' = RolledBack(Response(route, 500, "Failed to save attachments"))
            /\ UNCHANGED returned
    /\ UNCHANGED <<req, nextApplicationId>>
    /\ DocsUnchanged
    /\ CallsFrame

\* the list an upload writes back: the one it loaded, and its own files
WrittenBack(existing, saved) == existing \o saved

\* upload_request_files, up to the files it saves: r = DocumentRequest.query.get(id)
LoadRequestForUpload(w, in) ==
    /\ in.route = "upload_request_files"
    /\ inflight[w] = Idle
    /\ FilesInPlay < MaxFiles
    /\ in.caller # NoneId
    /\ Owned(requests, in.id, in.caller)
    /\ in.files # <<>>
    /\ inflight' = [inflight EXCEPT ![w] =
          [phase |-> "loaded", table |-> "document_requests", in |-> in, id |-> in.id,
           existing |-> RowOf(requests, in.id).supporting_documents]]
    /\ req' = in
    /\ UNCHANGED <<resp, returned>>
    /\ DocsUnchanged
    /\ UNCHANGED <<applications, nextApplicationId>>
    /\ CallsFrame

\* r.supporting_documents = existing + saved; db.session.commit()
WriteRequestUploads(w) ==
    LET route == "upload_request_files"
        call == inflight[w]
        saved == StoredRequestPaths(call.in.files, call.id)
    IN
    /\ call.phase = "loaded" /\ call.table = "document_requests"
    /\ inflight' = [inflight EXCEPT ![w] = Idle]
    /\ IF \E r \in requests : r.id = call.id
       THEN LET r == RowOf(requests, call.id) IN
            /\ requests' = (requests \ {r}) \cup
                  {[r EXCEPT !.supporting_documents =
                        WrittenBack(call.existing, saved)]}
            /\ resp' = [Response(route, 200, "") EXCEPT !.id = r.id, !.files = saved]
            /\ returned' = returned \cup ReturnedPaths(call.table, r.id, saved)
       ELSE \* the row was deleted meanwhile: the UPDATE matches nothing
            /\ resp' = RolledBack(Response(route, 500, "Failed to upload files"))
            /\ UNCHANGED <<requests, returned>>
    /\ UNCHANGED <<req, nextRequestId>>
    /\ UNCHANGED <<applications, nextApplicationId>>
    /\ CallsFrame

\* upload_application_doc, up to the file it saves: app = BenefitApplication.query.get(id)
LoadApplicationForUpload(w, in) ==
    /\ in.route = "upload_application_doc"
    /\ inflight[w] = Idle
    /\ FilesInPlay < MaxFiles
    /\ in.caller # NoneId
    /\ in.id \in ApplicationIds
    /\ GetApplication(in.id).user_id = in.caller
    /\ in.files # <<>>
    /\ inflight' = [inflight EXCEPT ![w] =
          [phase |-> "loaded", table |-> "benefit_applications", in |-> in, id |-> in.id,
           existing |-> GetApplication(in.id).supporting_documents]]
    /\ req' = in
    /\ UNCHANGED <<resp, returned>>
    /\ DocsUnchanged
    /\ UNCHANGED <<applications, nextApplicationId>>
    /\ CallsFrame

\* existing.append(rel_path); app.supporting_documents = existing; db.session.commit()
WriteApplicationUpload(w) ==
    LET route == "upload_application_doc"
        call == inflight[w]
        path == SaveBenefitDocument(Head(call.in.files), call.id)
    IN
    /\ call.phase = "loaded" /\ call.table = "benefit_applications"
    /\ inflight' = [inflight EXCEPT ![w] = Idle]
    /\ IF call.id \in ApplicationIds
       THEN LET a == GetApplication(call.id) IN
            /\ applications' = (applications \ {a}) \cup
                  {[a EXCEPT !.supporting_documents =
                        WrittenBack(call.existing, <<path>>)]}
            /\ resp' = [Response(route, 200, "") EXCEPT !.id = a.id, !.files = <<path>>]
            /\ returned' = returned \cup ReturnedPaths(call.table, a.id, <<path>>)
       ELSE /\ resp' = RolledBack(Response(route, 500, "Failed to upload file"))
            /\ UNCHANGED <<applications, returned>>
    /\ UNCHANGED <<req, nextApplicationId>>
    /\ DocsUnchanged
    /\ CallsFrame

\* the creations and uploads the workers are given
WorkerCreations ==
    {JsonDocRequest(u, DocData(OwnMunicipality(u), JInt(<<"5">>), "pickup")) : u \in Callers}
    \cup
    {FormDocRequest(1, DocData(OwnMunicipality(1), JInt(<<"5">>), "pickup"),
                    RequirementFiles(<<>>, <<>>, <<"s.png">>))}

WorkerApplications ==
    {AppRequest(u, TRUE, JInt(<<"2">>), RequirementFiles(<<"id.png">>, <<>>, <<>>)) :
        u \in Callers}

\* the names of files that have not been uploaded to the row before
FreshNames(table, id) ==
    {n \in UploadNames :
        /\ \A x \in returned : x[1] = table /\ x[2] = id => x[3][3] # n
        /\ \A w \in Workers :
              inflight[w].phase = "loaded" /\ inflight[w].table = table
                /\ inflight[w].id = id => Head(inflight[w].in.files) # n}

\* an upload of one file, by any caller, to any of the rows
WorkerUploads(route, table, ids) ==
    UNION {{[route |-> route, caller |-> u, id |-> id, fault |-> "none", files |-> <<f>>] :
               u \in Callers, f \in FreshNames(table, id)} : id \in ids}

InitCalls ==
    /\ EmptyDatabase
    /\ now = 0
    /\ req = NoRequest
    /\ resp = NoResponse
    /\ OtherTablesEmpty

NextCalls ==
    \/ \E w \in Workers, in \in WorkerCreations : BuildDocumentRequest(w, in)
    \/ \E w \in Workers : CommitDocumentRequest(w)
    \/ \E w \in Workers, saved_ok \in BOOLEAN : SaveRequestAttachments(w, saved_ok)
    \/ \E w \in Workers, in \in WorkerApplications : BuildApplication(w, in)
    \/ \E w \in Workers : CommitApplication(w)
    \/ \E w \in Workers, saved_ok \in BOOLEAN : SaveApplicationAttachments(w, saved_ok)
    \/ \E w \in Workers,
          in \in WorkerUploads("upload_request_files", "document_requests",
                               {r.id : r \in requests}) :
          LoadRequestForUpload(w, in)
    \/ \E w \in Workers : WriteRequestUploads(w)
    \/ \E w \in Workers,
          in \in WorkerUploads("upload_application_doc", "benefit_applications",
                               ApplicationIds) :
          LoadApplicationForUpload(w, in)
    \/ \E w \in Workers : WriteApplicationUpload(w)

SpecCalls == InitCalls /\ [][NextCalls]_vars

\* the rows public_verify_document's filter_by(request_number=...) matches
VerifyMatches(request_number) == {r \in requests : r.request_number = request_number}

\* C26: after any interleaving of creation calls no two stored document
\* requests share a request_number and no two stored benefit applications
\* share an application_number, so the lookup of public_verify_document by
\* request_number matches at most one request.
C26_GeneratedNumbersUnique ==
    /\ \A r1, r2 \in requests : r1.request_number = r2.request_number => r1.id = r2.id
    /\ \A a1, a2 \in applications :
          a1.application_number = a2.application_number => a1.id = a2.id
    /\ \A r \in requests : Cardinality(VerifyMatches(r.request_number)) <= 1

\* the paths on the list of a row
ListedPaths(r) == {r.supporting_documents[i] : i \in 1..Len(r.supporting_documents)}

\* C27: every file path answered by a 200 upload_request_files or
\* upload_application_doc, and every attachment of a 201 creation, is on the
\* supporting_documents of its row from then on, also when two uploads to
\* the same row run side by side.
C27_NoAttachmentLost ==
    /\ \A f \in returned : \A r \in requests :
          f[1] = "document_requests" /\ r.id = f[2] => f[3] \in ListedPaths(r)
    /\ \A f \in returned : \A a \in applications :
          f[1] = "benefit_applications" /\ a.id = f[2] => f[3] \in ListedPaths(a)

(***************************************************************************)
(* Programs over time: the clock advances, residents list the programs     *)
(* and apply to them.                                                      *)
(***************************************************************************)
ProgramApplications ==
    {AppRequest(u, TRUE, JStr(p), RequirementFiles(<<"a.png", "b.png">>, <<>>, <<>>)) :
        u \in Callers, p \in {<<"1">>, <<"2">>, <<"3">>, <<"4">>}}

ProgramListings ==
    {[route |-> "list_programs", municipality_id |-> m, fault |-> "none"] :
        m \in {NoneId, 1, 2}}

InitPrograms ==
    /\ EmptyDatabase
    /\ now = 0
    /\ req = NoRequest
    /\ resp = NoResponse
    /\ OtherTablesEmpty

NextPrograms ==
    \/ Tick
    \/ \E in \in ProgramListings : ListPrograms(in)
    \/ \E id \in ProgramIds : GetProgram([route |-> "get_program", id |-> id, fault |-> "none"])
    \/ \E in \in ProgramApplications : CreateApplication(in)

SpecPrograms == InitPrograms /\ [][NextPrograms]_vars

\* a program that takes no more applications: its duration has elapsed, or
\* it is marked as not accepting
Closed(p) == DurationElapsed(p) \/ ~programs[p].is_accepting_applications

\* C28: no benefit application is created for a closed program:
\* create_application stores no row for a program whose duration has elapsed
\* (created_at + duration_days <= now) or whose is_accepting_applications is
\* false, whether or not list_programs ran since the program expired.
C28_NoApplicationForClosedProgram ==
    [][\A a \in applications' : a.id \notin ApplicationIds => ~Closed(a.program_id)]_vars

\* the file lies in one of the allowlisted subdirectories of the upload folder
InAllowedDirectory(resolved) ==
    /\ Len(resolved) >= 2
    /\ \E p \in AllowedPrefixes : resolved[1] = <<p>>

\* C29: serve_uploaded_file serves no file outside the allowlisted
\* subdirectories of the upload folder: a path that begins with an
\* allowlisted prefix but whose '..' segments or backslashes resolve to
\* another directory, such as marketplace/../private/x, is not served.
C29_ServedInsideAllowlist ==
    (resp.route = "serve_uploaded_file" /\ resp.sent /\ resp.status = 200)
        => InAllowedDirectory(Resolved(Normalize(req.filename)))

(***************************************************************************)
(* The Alembic migrations of migrations/versions and the commands run on   *)
(* them.                                                                   *)
(***************************************************************************)
Migration(file, revision, down_revision) ==
    [file |-> file, revision |-> revision, down_revision |-> down_revision]

\* revision = '...' and down_revision = '...' of each file
Migrations ==
    {Migration("20251029_add_audit_logs_table", "20251029_add_audit_logs", "2bc95540bb7b"),
     Migration("20251102_add_password_reset_tokens", "20251102_reset_tokens", "7e00b3f22e71"),
     Migration("20251102_benefit_history", "20251102_benefit_history",
               "20251102_add_password_reset_tokens"),
     Migration("20251102_issue_category", "20251102_issue_category",
               "20251102_benefit_history"),
     Migration("20251102_user_verification_status", "20251102_user_verification_status",
               "20251102_benefit_history")}

\* the revisions of earlier migrations, which the two oldest files revise
EarlierRevisions == {"2bc95540bb7b", "7e00b3f22e71"}

MigrationOf(file) == CHOOSE m \in Migrations : m.file = file

RevisionIds == {m.revision : m \in Migrations} \cup EarlierRevisions

\* the migrations whose down_revision no migration declares as its revision
Dangling == {m \in Migrations : m.down_revision \notin RevisionIds}

\* the revisions no migration revises
Heads == {m.revision : m \in {x \in Migrations : \A y \in Migrations :
                                                    y.down_revision # x.revision}}

\* the revision a target names
Target(target) == IF target = "head" THEN Heads ELSE {target}

\* alembic <command> <target>: the revision map is built from the files
\* first; upgrade and stamp then move the database to the target
RunAlembic(in) ==
    LET route == "alembic" IN
    /\ in.route = route
    /\ req' = in
    /\ IF Dangling # {}
       THEN /\ resp' = Response(route, 1, "Can't locate revision")
            /\ UNCHANGED alembic_version
       ELSE IF in.target \notin RevisionIds \cup {"head", "base"}
       THEN /\ resp' = Response(route, 1, "Can't locate revision")
            /\ UNCHANGED alembic_version
       ELSE IF in.target = "head" /\ Cardinality(Heads) > 1
       THEN /\ resp' = Response(route, 1, "Multiple head revisions are present")
            /\ UNCHANGED alembic_version
       ELSE /\ resp' = Response(route, 0, "")
            /\ alembic_version' =
                  IF in.command \in {"upgrade", "stamp", "downgrade"}
                  THEN (IF in.target = "base" THEN {} ELSE Target(in.target))
                  ELSE alembic_version
    /\ UNCHANGED <<now, pending, inflight, returned>>
    /\ DocsUnchanged
    /\ BenefitsUnchanged
    /\ AccountsUnchanged
    /\ MarketUnchanged
    /\ SeedsUnchanged

AlembicCommands ==
    {[route |-> "alembic", command |-> c, target |-> t] :
        c \in {"upgrade", "downgrade", "stamp", "show", "history",
               "upgrade --sql", "downgrade --sql"},
        t \in RevisionIds \cup {"head", "base", "20251102_add_password_reset_tokens"}}

InitMigrations ==
    /\ EmptyDatabase
    /\ now = 0
    /\ req \in AlembicCommands
    /\ resp = NoResponse
    /\ OtherTablesEmpty

NextMigrations == resp = NoResponse /\ RunAlembic(req)

SpecMigrations == InitMigrations /\ [][NextMigrations]_vars

\* the migration files dated 2025-11-02
Nov2Migrations ==
    {MigrationOf(f) : f \in {"20251102_add_password_reset_tokens", "20251102_benefit_history",
                             "20251102_issue_category", "20251102_user_verification_status"}}

\* C30: the migrations of 2025-11-02, as an Alembic command reads them, form
\* one linear history: the
\* down_revision of 20251102_benefit_history is the revision id the
\* password-reset-tokens migration declares, every down_revision among them
\* names the revision id of an existing migration, and no two of them share
\* a down_revision, so that there is a single head.
C30_LinearMigrationHistory ==
    resp.route = "alembic" =>
        /\ MigrationOf("20251102_benefit_history").down_revision
              = MigrationOf("20251102_add_password_reset_tokens").revision
        /\ \A m \in Nov2Migrations : m.down_revision \in RevisionIds
        /\ \A m1, m2 \in Nov2Migrations : m1.down_revision = m2.down_revision => m1 = m2

====
